---------------------------- MODULE Spec2Model ----------------------------
(***************************************************************************)
(* Model of the ecrecover precompile circuit                               *)
(* (src/src/ecrecover/new_optimized.rs).                                   *)
(*                                                                         *)
(* The circuit works on 256-bit words over secp256k1.  The model keeps the *)
(* code's algorithms and instantiates them at a reduced word width: a      *)
(* word has WORD_BITS bits, a byte BYTE_BITS bits, and the curve is the    *)
(* curve y^2 = x^3 + 7 (the same SECP_B_COEF) over the prime field of      *)
(* secp_p elements, which like secp256k1 has secp_p = 3 (mod 4),           *)
(* secp_p = 1 (mod 3), prime group order secp_n < secp_p < 2^WORD_BITS and *)
(* 7 a quadratic non-residue.  The GLV lattice constants, BETA, the two    *)
(* exponent index lists and MAX_DECOMPOSITION_VALUE are the values the     *)
(* same derivations give for this curve.                                   *)
(***************************************************************************)
EXTENDS Integers, Sequences, FiniteSets, TLC

-----------------------------------------------------------------------------
(* Widths and curve parameters *)

WORD_BITS == 10
BYTE_BITS == 5
WORD_MOD == 2 ^ WORD_BITS              \* UInt256 values are 0 .. WORD_MOD - 1
BYTE_MOD == 2 ^ BYTE_BITS              \* UInt8 values are 0 .. BYTE_MOD - 1
BYTES_PER_WORD == WORD_BITS \div BYTE_BITS
U32_MAX == 15                          \* u32::MAX, scaled

secp_p == 967                          \* base field modulus
secp_n == 907                          \* scalar field modulus (group order)
SECP_B_COEF == 7
VALID_Y_IN_EXTERNAL_FIELD == 4
VALID_X_CUBED_IN_EXTERNAL_FIELD == 9
GEN_X == 1                             \* Secp256Affine::one()
GEN_Y == 88

MAX_DECOMPOSITION_VALUE == 255
BETA == 824
MODULUS_MINUS_ONE_DIV_TWO == 453
A1 == 7
B1 == 26
A2 == 33
WINDOW_WIDTH == 4
NUM_MULTIPLICATION_STEPS_FOR_WIDTH_4 == 2
PRECOMPUTATION_TABLE_SIZE == (2 ^ WINDOW_WIDTH) - 1
X_POWERS_ARR_LEN == WORD_BITS
LEGENDRE_IDXS == <<2, 3, 4>>           \* multiplied onto t_powers[0]
SQRT_IDXS == <<2, 3>>                  \* multiplied onto t_powers[1]
SQRT_FIRST_IDX == 1
MEMORY_QUERIES_PER_CALL == 4
NUM_MEMORY_READS_PER_CYCLE == 4
ALLOW_ZERO_MESSAGE == TRUE
PRECOMPILE_AUX_BYTE == 1
ECRECOVER_INNER_FUNCTION_PRECOMPILE_FORMAL_ADDRESS == 1

-----------------------------------------------------------------------------
(* Non-native field arithmetic, at the level of values.  An element is the *)
(* integer its limbs hold; it may be unreduced (>= modulus) right after a  *)
(* conversion from a word.                                                 *)

\* r, with v evaluated first (keeps TLC's evaluation of long chains shallow)
After(v, r) == IF v = v THEN r ELSE r

\* the inverses of the two fields, by their defining equation (0 for 0)
FqInverse == [a \in 0..(secp_p - 1) |->
                IF a = 0 THEN 0 ELSE CHOOSE x \in 1..(secp_p - 1) : (a * x) % secp_p = 1]
FrInverse == [a \in 0..(secp_n - 1) |->
                IF a = 0 THEN 0 ELSE CHOOSE x \in 1..(secp_n - 1) : (a * x) % secp_n = 1]
nn_inverse(a, m) == IF m = secp_p THEN FqInverse[a % secp_p] ELSE FrInverse[a % secp_n]

nn_add(a, b, m) == (a + b) % m
nn_sub(a, b, m) == (a - b) % m
nn_mul(a, b, m) == ((a % m) * (b % m)) % m
nn_square(a, m) == nn_mul(a, a, m)
\* a negation that leaves the value as it is
nn_negated_kept(a, m) == a % m
nn_negated(a, m) == (m - (a % m)) % m
nn_normalize(a, m) == a % m
nn_is_zero(a, m) == a % m = 0
nn_equals(a, b, m) == a % m = b % m

\* div_unchecked allocates the quotient as a witness and enforces
\* quotient * other = self; for other = 0 (mod m) the witness generator
\* falls back to the zero inverse and the constraint cannot be met.
\* a division that multiplies by the divisor
nn_div_unchecked_multiplying(a, b, m) == nn_mul(a, b, m)
nn_div_unchecked(a, b, m) == nn_mul(a, nn_inverse(b, m), m)
nn_inverse_unchecked(a, m) == nn_div_unchecked(1, a, m)
nn_div_satisfied(a, b, m) == (b % m # 0) \/ (a % m = 0)

-----------------------------------------------------------------------------
(* 256-bit word helpers *)

u256_overflowing_add(a, b) == <<(a + b) % WORD_MOD, a + b >= WORD_MOD>>
u256_overflowing_sub_inclusive(a, b) == <<(a - b) % WORD_MOD, a <= b>>
\* a subtraction that never reports a borrow
u256_overflowing_sub_never_borrows(a, b) == <<(a - b) % WORD_MOD, FALSE>>
u256_overflowing_sub(a, b) == <<(a - b) % WORD_MOD, a < b>>
\* a mask that lets the value through
u256_mask_ignored(a, flag) == a
u256_mask(a, flag) == IF flag THEN a ELSE 0
u256_mask_negated_ignored(a, flag) == a
u256_mask_negated(a, flag) == IF flag THEN 0 ELSE a

\* little-endian bytes of a word
to_le_bytes(v) == [i \in 1..BYTES_PER_WORD |-> (v \div (BYTE_MOD ^ (i - 1))) % BYTE_MOD]
\* big-endian bytes of a word
to_be_bytes(v) == [i \in 1..BYTES_PER_WORD |-> (v \div (BYTE_MOD ^ (BYTES_PER_WORD - i))) % BYTE_MOD]
from_le_bytes(bytes) == (bytes[1] + BYTE_MOD * bytes[2]) % WORD_MOD

\* a non-native field element is held as limbs; the conversions cut the word
\* into limbs (here one per byte) and the element's value is the limbs' value,
\* which may exceed the modulus until the element is normalized
nn_from_limbs(limbs) == from_le_bytes(limbs)
nn_to_limbs(elem) == to_le_bytes(elem)
convert_uint256_to_field_element(elem) == nn_from_limbs(to_le_bytes(elem))
convert_uint256_to_field_element_unmasked(elem) ==
    <<nn_from_limbs(to_le_bytes(IF elem = 0 THEN 1 ELSE elem)), FALSE>>
convert_uint256_to_field_element_masked(elem) ==
    LET is_zero == elem = 0
        one_nn == 1
        element == nn_from_limbs(to_le_bytes(elem))
    IN <<IF is_zero THEN one_nn ELSE element, is_zero>>
convert_field_element_to_uint256(elem) == from_le_bytes(nn_to_limbs(elem))

\* A field element with its bookkeeping: the value its limbs hold, the
\* representation form and the overflow tracker
RepresentationForms == {"Normalized", "Lazy"}
NonNativeFieldOverU16(value, form, max_moduluses) ==
    [value |-> value, form |-> form, max_moduluses |-> max_moduluses]
\* the tracker the conversions from a word give: how many moduluses fit the word
uint256_max_moduluses(m) ==
    LET max_value == WORD_MOD - 1
        overflows == max_value \div m
        rem == max_value % m
    IN IF rem # 0 THEN overflows + 1 ELSE overflows
\* the two assertions at the head of convert_field_element_to_uint256
convert_field_element_to_uint256_asserts(elem) ==
    /\ elem.form = "Normalized"
    /\ elem.max_moduluses = 1
\* the call as a whole: it panics, or returns the word of the limbs
convert_field_element_to_uint256_call(elem) ==
    IF convert_field_element_to_uint256_asserts(elem)
    THEN [panicked |-> FALSE, word |-> convert_field_element_to_uint256(elem.value)]
    ELSE [panicked |-> TRUE, word |-> 0]
\* enforce_reduced and normalize leave a normalized element with tracker 1
nn_enforce_reduced_element(elem, m) == NonNativeFieldOverU16(elem.value, "Normalized", 1)
nn_normalize_element_skipped(elem, m) == elem
nn_normalize_element(elem, m) ==
    NonNativeFieldOverU16(nn_normalize(elem.value, m), "Normalized", 1)

-----------------------------------------------------------------------------
(* Curve points: projective <<X, Y, Z>>, affine <<x, y>>.                  *)

Fq(a) == a % secp_p
curve_b3 == Fq(3 * SECP_B_COEF)
sw_zero == <<0, 1, 0>>
from_xy_unchecked(x, y) == <<Fq(x), Fq(y), 1>>
Secp256Affine_one == <<GEN_X, GEN_Y>>

\* complete addition for a = 0 (projective + projective)
sw_add(P1, P2) ==
    LET X1 == P1[1]  Y1 == P1[2]  Z1 == P1[3]
        X2 == P2[1]  Y2 == P2[2]  Z2 == P2[3]
        xy == Fq(Fq(X1 * Y2) + Fq(X2 * Y1))
        yz == Fq(Fq(Y1 * Z2) + Fq(Y2 * Z1))
        xz == Fq(Fq(X1 * Z2) + Fq(X2 * Z1))
        yy == Fq(Y1 * Y2)
        zz3 == Fq(curve_b3 * Fq(Z1 * Z2))
        xx == Fq(X1 * X2)
        X3 == Fq(Fq(xy * Fq(yy - zz3)) - Fq(curve_b3 * Fq(yz * xz)))
        Y3 == Fq(Fq(Fq(yy + zz3) * Fq(yy - zz3)) + Fq(Fq(3 * curve_b3) * Fq(xx * xz)))
        Z3 == Fq(Fq(yz * Fq(yy + zz3)) + Fq(3 * Fq(xx * xy)))
    IN <<X3, Y3, Z3>>

add_mixed(P1, aff) == sw_add(P1, <<Fq(aff[1]), Fq(aff[2]), 1>>)

double(P1) ==
    LET X == P1[1]  Y == P1[2]  Z == P1[3]
        yy == Fq(Y * Y)
        zz3 == Fq(curve_b3 * Fq(Z * Z))
        X3 == Fq(Fq(2 * Fq(X * Y)) * Fq(yy - 3 * zz3))
        Y3 == Fq(Fq(Fq(yy - 3 * zz3) * Fq(yy + zz3)) + Fq(8 * Fq(yy * zz3)))
        Z3 == Fq(8 * Fq(Fq(yy * Y) * Z))
    IN <<X3, Y3, Z3>>

\* returns <<affine point, is_infinity>>
convert_to_affine_or_default(P1, default) ==
    LET is_infinity == Fq(P1[3]) = 0
        zinv == nn_inverse(P1[3], secp_p)
    IN IF is_infinity THEN <<default, TRUE>>
       ELSE <<(<<Fq(P1[1] * zinv), Fq(P1[2] * zinv)>>), FALSE>>

-----------------------------------------------------------------------------
(* to_width_4_window_form: most significant window first.  The code's     *)
(* constraints accept the scalar only below 16^NUM_MULTIPLICATION_STEPS.  *)

WINDOW_MOD == 2 ^ WINDOW_WIDTH
window_form_accepts(k) == k < WINDOW_MOD ^ NUM_MULTIPLICATION_STEPS_FOR_WIDTH_4
to_width_4_window_form(k) ==
    [i \in 1..NUM_MULTIPLICATION_STEPS_FOR_WIDTH_4 |->
        (k \div (WINDOW_MOD ^ (NUM_MULTIPLICATION_STEPS_FOR_WIDTH_4 - i))) % WINDOW_MOD]

-----------------------------------------------------------------------------
(* GLV decomposition, as in width_4_windowed_multiplication               *)

\* the low half in place of the high half
u512_to_low(v) == v % WORD_MOD
u512_to_high(v) == (v \div WORD_MOD) % WORD_MOD

\* [k1, k1_was_negated, k2, k2_was_negated, c1, c2, no_overflow]
glv_decomposition(scalar) ==
    LET k == convert_field_element_to_uint256(scalar)
        b2 == A1
        b2_times_k == k * b2 + MODULUS_MINUS_ONE_DIV_TWO
        c1 == u512_to_high(b2_times_k)
        b1_times_k == k * B1 + MODULUS_MINUS_ONE_DIV_TWO
        c2 == u512_to_high(b1_times_k)
        c1_times_a1 == nn_mul(c1, A1, secp_n)
        c2_times_a2 == nn_mul(c2, A2, secp_n)
        k1 == nn_normalize(nn_sub(nn_sub(scalar, c1_times_a1, secp_n), c2_times_a2, secp_n), secp_n)
        c2_times_b2 == nn_mul(c2, b2, secp_n)
        k2 == nn_normalize(nn_sub(nn_mul(c1, B1, secp_n), c2_times_b2, secp_n), secp_n)
        k1_out_of_range == u256_overflowing_sub(MAX_DECOMPOSITION_VALUE, k1)[2]
        k2_out_of_range == u256_overflowing_sub(MAX_DECOMPOSITION_VALUE, k2)[2]
    IN [k1 |-> IF k1_out_of_range THEN nn_negated(k1, secp_n) ELSE k1,
        k1_was_negated |-> k1_out_of_range,
        k2 |-> IF k2_out_of_range THEN nn_negated(k2, secp_n) ELSE k2,
        k2_was_negated |-> k2_out_of_range,
        c1 |-> c1,
        c2 |-> c2,
        no_overflow |-> b2_times_k < WORD_MOD * WORD_MOD /\ b1_times_k < WORD_MOD * WORD_MOD]

\* the three calls of convert_field_element_to_uint256 in the multiplier: on the
\* scalar after enforce_reduced, on k1 and on k2 after normalize; `lazy` is the
\* bookkeeping the subtractions leave on k1 and k2
glv_conversions_of(scalar, glv, lazy) ==
    LET c1_times_a1 == nn_mul(glv.c1, A1, secp_n)
        c2_times_a2 == nn_mul(glv.c2, A2, secp_n)
        k1 == NonNativeFieldOverU16(
                  nn_sub(nn_sub(scalar.value, c1_times_a1, secp_n), c2_times_a2, secp_n),
                  lazy.form, lazy.max_moduluses)
        c2_times_b2 == nn_mul(glv.c2, A1, secp_n)
        k2 == NonNativeFieldOverU16(
                  nn_sub(nn_mul(glv.c1, B1, secp_n), c2_times_b2, secp_n),
                  lazy.form, lazy.max_moduluses)
    IN <<convert_field_element_to_uint256_call(scalar),
         convert_field_element_to_uint256_call(nn_normalize_element(k1, secp_n)),
         convert_field_element_to_uint256_call(nn_normalize_element(k2, secp_n))>>
glv_conversions(elem, lazy) ==
    glv_conversions_of(nn_enforce_reduced_element(elem, secp_n),
                       glv_decomposition(elem.value % secp_n), lazy)

-----------------------------------------------------------------------------
(* width_4_windowed_multiplication                                         *)

\* tmp after each mixed addition of the base point: <<P, 2P, ..., 15P>>
RECURSIVE precomputation_loop(_, _)
precomputation_loop(tmps, p_affine) ==
    IF Len(tmps) = PRECOMPUTATION_TABLE_SIZE THEN tmps
    ELSE precomputation_loop(Append(tmps, add_mixed(tmps[Len(tmps)], p_affine)), p_affine)
precomputation_tmps(point) ==
    precomputation_loop(<<point>>, convert_to_affine_or_default(point, Secp256Affine_one)[1])

negate_y_if_never(entry, was_negated) == entry
\* y, negated when was_negated
negate_y_if(entry, was_negated) ==
    <<entry[1], IF was_negated THEN nn_negated(entry[2], secp_p) ELSE entry[2]>>

\* the affine multiples 1P .. 15P, before any negation
affine_table(tmps) ==
    [i \in 1..PRECOMPUTATION_TABLE_SIZE |->
        convert_to_affine_or_default(tmps[i], Secp256Affine_one)[1]]
\* table of the k1 part: y negated when k1 was negated
precomputation_table(affine, k1_was_negated) ==
    [i \in 1..PRECOMPUTATION_TABLE_SIZE |-> negate_y_if(affine[i], k1_was_negated)]
\* table of the k2 part: x multiplied by BETA, y negated when k2 was negated
endomorphisms_table(affine, k2_was_negated) ==
    [i \in 1..PRECOMPUTATION_TABLE_SIZE |->
        negate_y_if(<<nn_mul(affine[i][1], BETA, secp_p), affine[i][2]>>, k2_was_negated)]

\* the linear scan: entry 1 unless the window equals one of 2 .. 15
select_table_entry(table, window_idx) ==
    IF window_idx \in 2..PRECOMPUTATION_TABLE_SIZE THEN table[window_idx] ELSE table[1]

\* the addition kept whatever the window
conditional_add_mixed_always(acc, table, window_idx) ==
    add_mixed(acc, select_table_entry(table, window_idx))
\* acc + selected part, kept only when the window is not zero
conditional_add_mixed(acc, table, window_idx) ==
    IF window_idx = 0 THEN acc ELSE add_mixed(acc, select_table_entry(table, window_idx))

\* acc doubled `times` times
RECURSIVE repeated_double(_, _)
repeated_double(acc, times) ==
    IF times = 0 THEN acc ELSE repeated_double(double(acc), times - 1)

\* one step of the amortized double and add, idx counted from 1
multiplication_step(acc, table, endo_table, k1_window_idx, k2_window_idx, idx) ==
    IF idx # NUM_MULTIPLICATION_STEPS_FOR_WIDTH_4
    THEN repeated_double(
             conditional_add_mixed(conditional_add_mixed(acc, table, k1_window_idx),
                                   endo_table, k2_window_idx),
             WINDOW_WIDTH)
    ELSE conditional_add_mixed(conditional_add_mixed(acc, table, k1_window_idx),
                               endo_table, k2_window_idx)

\* the steps idx .. NUM_MULTIPLICATION_STEPS_FOR_WIDTH_4 applied to acc
RECURSIVE multiplication_loop(_, _, _, _, _, _)
multiplication_loop(acc, table, endo_table, k1_windows, k2_windows, idx) ==
    IF idx > NUM_MULTIPLICATION_STEPS_FOR_WIDTH_4 THEN acc
    ELSE After(<<acc, table, endo_table>>,
               multiplication_loop(
                   multiplication_step(acc, table, endo_table,
                                       k1_windows[idx], k2_windows[idx], idx),
                   table, endo_table, k1_windows, k2_windows, idx + 1))

\* the multiplication once the scalar is decomposed and the multiples are known
windowed_multiplication_of(glv, affine) ==
    After(<<glv, affine>>,
          multiplication_loop(sw_zero,
                              precomputation_table(affine, glv.k1_was_negated),
                              endomorphisms_table(affine, glv.k2_was_negated),
                              to_width_4_window_form(glv.k1),
                              to_width_4_window_form(glv.k2),
                              1))
width_4_windowed_multiplication(point, scalar) ==
    windowed_multiplication_of(glv_decomposition(scalar),
                               affine_table(precomputation_tmps(point)))

\* the constraints the multiplier enforces on the way
glv_satisfied(scalar, glv) ==
    /\ scalar < secp_n
    /\ glv.no_overflow
    /\ window_form_accepts(glv.k1)
    /\ window_form_accepts(glv.k2)
width_4_windowed_multiplication_satisfied(scalar) ==
    glv_satisfied(scalar, glv_decomposition(scalar))

-----------------------------------------------------------------------------
(* fixed_base_mul                                                          *)

\* G, 2G, 4G, ... : one doubling per bit of a word
RECURSIVE FixedBaseDoublingsLoop(_)
FixedBaseDoublingsLoop(doublings) ==
    IF Len(doublings) = WORD_BITS THEN doublings
    ELSE FixedBaseDoublingsLoop(Append(doublings, double(doublings[Len(doublings)])))
FixedBaseAffineOf(doublings) ==
    [i \in 1..WORD_BITS |-> convert_to_affine_or_default(doublings[i], Secp256Affine_one)[1]]
FixedBaseAffine ==
    FixedBaseAffineOf(FixedBaseDoublingsLoop(<<from_xy_unchecked(GEN_X, GEN_Y)>>))
\* the sum of the doublings picked by the bits bit .. BYTE_BITS - 1 of byte
RECURSIVE FixedBaseEntryLoop(_, _, _, _)
FixedBaseEntryLoop(acc, position, byte, bit) ==
    IF bit = BYTE_BITS THEN acc
    ELSE After(acc,
               FixedBaseEntryLoop(
                   IF (byte \div (2 ^ bit)) % 2 = 1
                   THEN add_mixed(acc, FixedBaseAffine[position * BYTE_BITS + bit + 1])
                   ELSE acc,
                   position, byte, bit + 1))
\* the lookup tables FixedBaseMulTable<_, C>: entry [position][byte] is the
\* affine point (byte * BYTE_MOD^position) * G, position counted from 0
FixedBaseMulTable ==
    [position \in 0..(BYTES_PER_WORD - 1) |->
        [byte \in 0..(BYTE_MOD - 1) |->
            IF byte = 0 THEN <<0, 0>>
            ELSE convert_to_affine_or_default(
                     FixedBaseEntryLoop(sw_zero, position, byte, 0), Secp256Affine_one)[1]]]

\* the loop without the selection on byte.is_zero
RECURSIVE fixed_base_loop_adding_zero_bytes(_, _, _)
fixed_base_loop_adding_zero_bytes(acc, bytes, position) ==
    IF position < 0 THEN acc
    ELSE After(acc,
               fixed_base_loop_adding_zero_bytes(
                   add_mixed(acc, FixedBaseMulTable[position][bytes[position + 1]]),
                   bytes, position - 1))
\* acc after the bytes at positions `position` down to 0
RECURSIVE fixed_base_loop(_, _, _)
fixed_base_loop(acc, bytes, position) ==
    IF position < 0 THEN acc
    ELSE After(acc,
               fixed_base_loop(
                   IF bytes[position + 1] = 0 THEN acc
                   ELSE add_mixed(acc, FixedBaseMulTable[position][bytes[position + 1]]),
                   bytes, position - 1))

fixed_base_mul_zero_as_generator(scalar) ==
    IF nn_is_zero(scalar, secp_n) THEN <<GEN_X, GEN_Y, 1>>
    ELSE fixed_base_loop(sw_zero, to_le_bytes(scalar), BYTES_PER_WORD - 1)
\* the final selection with the table's first point in place of zero_point
fixed_base_mul_zero_as_first_entry(scalar) ==
    IF nn_is_zero(scalar, secp_n)
    THEN from_xy_unchecked(FixedBaseMulTable[0][1][1], FixedBaseMulTable[0][1][2])
    ELSE fixed_base_loop(sw_zero, to_le_bytes(scalar), BYTES_PER_WORD - 1)
fixed_base_mul(scalar) ==
    IF nn_is_zero(scalar, secp_n) THEN sw_zero
    ELSE fixed_base_loop(sw_zero, to_le_bytes(scalar), BYTES_PER_WORD - 1)

-----------------------------------------------------------------------------
(* keccak256 of the boojum gadget library, as a stand-in mixing function  *)
(* from a byte string to BYTES_PER_WORD digest bytes (big-endian)         *)

KECCAK_PRIME == 1021
KECCAK_MULT == 37
RECURSIVE keccak_absorb(_, _)
keccak_absorb(bytes, i) ==
    IF i = 0 THEN 1
    ELSE (keccak_absorb(bytes, i - 1) * KECCAK_MULT + bytes[i] + 1) % KECCAK_PRIME
keccak256(bytes) == to_be_bytes(keccak_absorb(bytes, Len(bytes)))

-----------------------------------------------------------------------------
(* ecrecover_precompile_inner_routine                                      *)

ADDRESS_ZEROED_BYTES == 1              \* digest_bytes[0..12], scaled

\* t_powers[i + 1] = t^(2^i), i = 0 .. X_POWERS_ARR_LEN - 1
RECURSIVE t_powers_loop(_)
t_powers_loop(t_powers) ==
    IF Len(t_powers) = X_POWERS_ARR_LEN THEN t_powers
    ELSE t_powers_loop(Append(t_powers, nn_square(t_powers[Len(t_powers)], secp_p)))

\* the indexes read as counting from 1
RECURSIVE mul_powers_indexes_from_one(_, _, _, _)
mul_powers_indexes_from_one(acc, t_powers, idxs, i) ==
    IF i > Len(idxs) THEN acc
    ELSE mul_powers_indexes_from_one(nn_mul(acc, t_powers[idxs[i]], secp_p), t_powers,
                                     idxs, i + 1)
\* acc multiplied by the powers at the indexes idxs[i .. Len(idxs)] (indexes from 0)
RECURSIVE mul_powers(_, _, _, _)
mul_powers(acc, t_powers, idxs, i) ==
    IF i > Len(idxs) THEN acc
    ELSE mul_powers(nn_mul(acc, t_powers[idxs[i] + 1], secp_p), t_powers, idxs, i + 1)

\* the bits read inverted
spread_into_bits_inverted(v, i) == (v \div (2 ^ i)) % 2 = 0
spread_into_bits(v, i) == (v \div (2 ^ i)) % 2 = 1

\* digest with the top bytes emptied, reversed and read as a little-endian word
address_from_digest_not_reversed(digest_bytes) ==
    from_le_bytes([i \in 1..BYTES_PER_WORD |->
                     IF i <= ADDRESS_ZEROED_BYTES THEN 0 ELSE digest_bytes[i]])
address_from_digest(digest_bytes) ==
    from_le_bytes([i \in 1..BYTES_PER_WORD |->
                     IF BYTES_PER_WORD + 1 - i <= ADDRESS_ZEROED_BYTES
                     THEN 0 ELSE digest_bytes[BYTES_PER_WORD + 1 - i]])

\* the x candidate, the first five exception flags and t
routine_inputs(recid, r, s, message_hash, MESSAGE_HASH_CAN_BE_ZERO, valid_t_in_external_field_) ==
    LET y_is_odd == spread_into_bits(recid, 0)
        x_overflow == spread_into_bits(recid, 1)
        r_plus_n == u256_overflowing_add(r, secp_n)
        x_selected == IF x_overflow THEN r_plus_n[1] ELSE r
        error == x_overflow /\ r_plus_n[2]
        is_in_range == u256_overflowing_sub(x_selected, secp_p)[2]
        x_as_u256 == u256_mask(x_selected, is_in_range)
        x_is_not_in_range == ~is_in_range
        x_fe == convert_uint256_to_field_element(x_as_u256)
        r_conv == convert_uint256_to_field_element_masked(r)
        s_conv == convert_uint256_to_field_element_masked(s)
        h_conv == IF MESSAGE_HASH_CAN_BE_ZERO
                  THEN <<convert_uint256_to_field_element(message_hash), FALSE>>
                  ELSE convert_uint256_to_field_element_masked(message_hash)
        t_raw == nn_add(nn_mul(nn_square(x_fe, secp_p), x_fe, secp_p), SECP_B_COEF, secp_p)
        t_is_zero == nn_is_zero(t_raw, secp_p)
    IN [y_is_odd |-> y_is_odd,
        x_as_u256 |-> x_as_u256,
        x_fe |-> x_fe,
        r_fe |-> r_conv[1],
        s_fe |-> s_conv[1],
        message_hash_fe |-> h_conv[1],
        t |-> IF t_is_zero THEN valid_t_in_external_field_ ELSE t_raw,
        flags |-> <<error, x_is_not_in_range, r_conv[2], s_conv[2], h_conv[2], t_is_zero>>]

\* Legendre symbol and square root of t from its powers, and the point to use
routine_point(in, t_powers, valid_x_in_external_field_, valid_y_in_external_field_) ==
    LET minus_one == secp_p - 1
        acc == mul_powers(t_powers[1], t_powers, LEGENDRE_IDXS, 1)
        legendre_symbol == nn_div_unchecked(t_powers[X_POWERS_ARR_LEN], acc, secp_p)
        acc_2 == mul_powers(t_powers[SQRT_FIRST_IDX + 1], t_powers, SQRT_IDXS, 1)
        may_be_recovered_y == nn_normalize(
            nn_div_unchecked(t_powers[X_POWERS_ARR_LEN - 1], acc_2, secp_p), secp_p)
        may_be_recovered_y_negated == nn_negated(may_be_recovered_y, secp_p)
        lowest_bit == spread_into_bits(may_be_recovered_y, 0)
        should_swap == lowest_bit # in.y_is_odd
        selected_y == IF should_swap THEN may_be_recovered_y_negated ELSE may_be_recovered_y
        t_is_nonresidue == nn_equals(legendre_symbol, minus_one, secp_p)
    IN [legendre_symbol |-> legendre_symbol,
        may_be_recovered_y |-> may_be_recovered_y,
        t_is_nonresidue |-> t_is_nonresidue,
        selected_y |-> selected_y,
        x |-> IF t_is_nonresidue THEN valid_x_in_external_field_ ELSE in.x_fe,
        y |-> IF t_is_nonresidue THEN valid_y_in_external_field_ ELSE selected_y,
        satisfied |-> /\ nn_div_satisfied(t_powers[X_POWERS_ARR_LEN], acc, secp_p)
                      /\ nn_div_satisfied(t_powers[X_POWERS_ARR_LEN - 1], acc_2, secp_p)]

\* the two scalars s / r and -(message_hash / r)
routine_scalars(in) ==
    LET r_fe_inversed == nn_inverse_unchecked(in.r_fe, secp_n)
        s_by_r_inv == nn_normalize(nn_mul(in.s_fe, r_fe_inversed, secp_n), secp_n)
        message_hash_by_r_inv == nn_mul(in.message_hash_fe, r_fe_inversed, secp_n)
    IN [s_by_r_inv |-> s_by_r_inv,
        message_hash_by_r_inv_negated |->
            nn_normalize(nn_negated(message_hash_by_r_inv, secp_n), secp_n),
        satisfied |-> nn_div_satisfied(1, in.r_fe, secp_n)]

\* s_times_x plus the fixed-base term, which is left out when it is infinity
routine_sum(s_times_x, q_acc_aff) ==
    IF q_acc_aff[2] THEN s_times_x ELSE add_mixed(s_times_x, q_acc_aff[1])

\* the last flag, hashing and masking
routine_result(in, pt, sc, hash_times_g_is_infinity, q) ==
    LET is_infinity == q[2]
        exception_flags == in.flags \o <<pt.t_is_nonresidue, is_infinity>>
        any_exception == \E i \in 1..Len(exception_flags) : exception_flags[i]
        bytes_to_hash == to_be_bytes(q[1][1]) \o to_be_bytes(q[1][2])
        digest_bytes == keccak256(bytes_to_hash)
        written_value_unmasked == address_from_digest(digest_bytes)
    IN [all_ok |-> ~any_exception,
        written_value |-> u256_mask_negated(written_value_unmasked, any_exception),
        exception_flags |-> exception_flags,
        satisfied |-> /\ pt.satisfied /\ sc.satisfied
                      /\ width_4_windowed_multiplication_satisfied(sc.s_by_r_inv),
        x_as_u256 |-> in.x_as_u256,
        t |-> in.t,
        legendre_symbol |-> pt.legendre_symbol,
        may_be_recovered_y |-> pt.may_be_recovered_y,
        recovered_point |-> <<pt.x, pt.y>>,
        r_fe |-> in.r_fe,
        s_by_r_inv |-> sc.s_by_r_inv,
        message_hash_by_r_inv_negated |-> sc.message_hash_by_r_inv_negated,
        hash_times_g_is_infinity |-> hash_times_g_is_infinity,
        written_value_unmasked |-> written_value_unmasked,
        q |-> q[1]]

routine_output(in, pt, sc, hash_times_g_is_infinity, q) ==
    After(q, routine_result(in, pt, sc, hash_times_g_is_infinity, q))
routine_finish(in, pt, sc, s_times_x, q_acc_aff) ==
    After(<<s_times_x, q_acc_aff>>,
          routine_output(in, pt, sc, q_acc_aff[2],
                         convert_to_affine_or_default(routine_sum(s_times_x, q_acc_aff),
                                                      Secp256Affine_one)))

\* the two multiplications and their sum
routine_multiply(in, pt, sc) ==
    routine_finish(in, pt, sc,
        width_4_windowed_multiplication(from_xy_unchecked(pt.x, pt.y), sc.s_by_r_inv),
        convert_to_affine_or_default(fixed_base_mul(sc.message_hash_by_r_inv_negated),
                                     Secp256Affine_one))

routine_with_point(in, pt) == After(<<in, pt>>, routine_multiply(in, pt, routine_scalars(in)))
routine_recover(in, valid_x_in_external_field_, valid_y_in_external_field_) ==
    routine_with_point(in, routine_point(in, t_powers_loop(<<in.t>>),
                                         valid_x_in_external_field_,
                                         valid_y_in_external_field_))

ecrecover_precompile_inner_routine(recid, r, s, message_hash, MESSAGE_HASH_CAN_BE_ZERO, valid_x_in_external_field_, valid_y_in_external_field_, valid_t_in_external_field_) ==
    routine_recover(
        routine_inputs(recid, r, s, message_hash, MESSAGE_HASH_CAN_BE_ZERO,
                       valid_t_in_external_field_),
        valid_x_in_external_field_, valid_y_in_external_field_)

\* the substitute point handed to the routine by its callers
valid_x_in_external_field == VALID_X_CUBED_IN_EXTERNAL_FIELD
valid_y_in_external_field == VALID_Y_IN_EXTERNAL_FIELD
valid_t_in_external_field == nn_add(VALID_X_CUBED_IN_EXTERNAL_FIELD, SECP_B_COEF, secp_p)

-----------------------------------------------------------------------------
(* Reference arithmetic used to state the properties: the affine group    *)
(* law of the curve, with the point at infinity written <<>>.             *)

RefInf == <<>>
RefOnCurve(Q) ==
    Q # RefInf => Fq(Q[2] * Q[2]) = Fq(Fq(Fq(Q[1] * Q[1]) * Q[1]) + SECP_B_COEF)
RefInv(a) == FqInverse[Fq(a)]
RefAdd(Q1, Q2) ==
    IF Q1 = RefInf THEN Q2
    ELSE IF Q2 = RefInf THEN Q1
    ELSE IF Q1[1] = Q2[1] /\ Fq(Q1[2] + Q2[2]) = 0 THEN RefInf
    ELSE LET l == IF Q1 = Q2
                  THEN Fq(Fq(3 * Fq(Q1[1] * Q1[1])) * RefInv(Fq(2 * Q1[2])))
                  ELSE Fq(Fq(Q2[2] - Q1[2]) * RefInv(Fq(Q2[1] - Q1[1])))
             x3 == Fq(Fq(l * l) - Q1[1] - Q2[1])
         IN <<x3, Fq(Fq(l * Fq(Q1[1] - x3)) - Q1[2])>>
\* k * Q for 0 <= k < 2^WORD_BITS, by the binary method from the low bit up
RefBit(k, i) == (k \div (2 ^ i)) % 2 = 1
RECURSIVE RefMulLoop(_, _, _, _)
RefMulLoop(k, base, acc, i) ==
    IF i = WORD_BITS THEN acc
    ELSE After(<<base, acc>>,
               RefMulLoop(k, RefAdd(base, base),
                          IF RefBit(k, i) THEN RefAdd(acc, base) ELSE acc, i + 1))
RefMul(k, Q) == RefMulLoop(k, Q, RefInf, 0)
RefNeg(Q) == IF Q = RefInf THEN RefInf ELSE <<Q[1], Fq(secp_p - Q[2])>>
RefG == <<GEN_X, GEN_Y>>
\* a projective point as a reference point
RefOf(P1) ==
    LET a == convert_to_affine_or_default(P1, Secp256Affine_one)
    IN IF a[2] THEN RefInf ELSE a[1]

-----------------------------------------------------------------------------
VARIABLES mul, ecr, structured_input, requests_queue, memory_queue,
          requests_queue_witness, memory_reads_witness, limit, cycle, instance, pc
loop_vars == <<structured_input, requests_queue, memory_queue, requests_queue_witness,
               memory_reads_witness, limit, cycle, instance, pc>>
vars == <<mul, ecr, loop_vars>>

-----------------------------------------------------------------------------
(* Queues: a queue state commits to what was pushed (tail) and to what was *)
(* popped (head) by hash chains, written here as the sequences absorbed    *)

QueueState_empty == [head |-> <<>>, tail |-> <<>>, length |-> 0]
QueueState_placeholder == QueueState_empty
enforce_trivial_head(state) == state.head = <<>>
queue_is_empty(queue) == queue.length = 0
queue_push_in_front(queue, item, execute) ==
    IF execute
    THEN [queue EXCEPT !.tail = <<item>> \o @, !.length = @ + 1]
    ELSE queue
\* a push that ignores its flag
queue_push_unconditional(queue, item, execute) ==
    [queue EXCEPT !.tail = Append(@, item), !.length = @ + 1]
queue_push(queue, item, execute) ==
    IF execute
    THEN [queue EXCEPT !.tail = Append(@, item), !.length = @ + 1]
    ELSE queue
LogQuery_placeholder ==
    [aux_byte |-> 0, address |-> 0, timestamp |-> 0, key |-> <<0, 0, 0, 0, 0, 0, 0, 0>>]
\* the popped element comes from the witness; the head absorbs it
queue_pop_front(queue, witness, execute) ==
    IF execute
    THEN <<Head(witness), [queue EXCEPT !.head = Append(@, Head(witness)), !.length = @ - 1]>>
    ELSE <<LogQuery_placeholder, queue>>
enforce_consistency_skipped(queue) == TRUE
enforce_consistency(queue) == queue_is_empty(queue) => queue.head = queue.tail

u32_add_no_overflow(a, b) == <<a + b, a + b <= U32_MAX>>

from_encoding(encoding) ==
    [input_page |-> encoding[5], input_offset |-> encoding[1],
     output_page |-> encoding[6], output_offset |-> encoding[3]]

conditionally_allocate_biased(witness_source, i, should_process) ==
    IF should_process THEN witness_source[i] ELSE 0

\* the pushes of the read queries but the first
push_read_queries_but_first(queue, read_queries, execute, i) ==
    queue_push(queue_push(queue_push(queue, read_queries[2], execute),
                          read_queries[3], execute), read_queries[4], execute)
\* the pushes of the read queries i .. NUM_MEMORY_READS_PER_CYCLE
RECURSIVE push_read_queries(_, _, _, _)
push_read_queries(queue, read_queries, execute, i) ==
    IF i > NUM_MEMORY_READS_PER_CYCLE THEN queue
    ELSE push_read_queries(queue_push(queue, read_queries[i], execute), read_queries,
                           execute, i + 1)

\* an equality enforced whatever the flag
enforce_equal_unconditionally(should_enforce, a, b) == a = b
\* Num::conditionally_enforce_equal: the equality is a constraint only under the flag
conditionally_enforce_equal(should_enforce, a, b) == should_enforce => a = b

\* one pass of the loop body `for _cycle in 0..limit`
loop_body_with(requests_queue_, memory_queue_, queue_witness, reads_witness, routine) ==
    LET is_empty == queue_is_empty(requests_queue_)
        should_process == ~is_empty
        popped == queue_pop_front(requests_queue_, queue_witness, should_process)
        request == popped[1]
        precompile_call_params == from_encoding(request.key)
        timestamp_to_use_for_read == request.timestamp
        timestamp_to_use_for_write == u32_add_no_overflow(timestamp_to_use_for_read, 1)
        aux_byte_ok == conditionally_enforce_equal(should_process, request.aux_byte,
                                                   PRECOMPILE_AUX_BYTE)
        address_ok == conditionally_enforce_equal(
                          should_process, request.address,
                          ECRECOVER_INNER_FUNCTION_PRECOMPILE_FORMAL_ADDRESS)
        read_values == [i \in 1..NUM_MEMORY_READS_PER_CYCLE |->
                          conditionally_allocate_biased(reads_witness, i, should_process)]
        read_queries == [i \in 1..NUM_MEMORY_READS_PER_CYCLE |->
                           [timestamp |-> timestamp_to_use_for_read,
                            memory_page |-> precompile_call_params.input_page,
                            index |-> precompile_call_params.input_offset + (i - 1),
                            rw_flag |-> FALSE,
                            is_ptr |-> FALSE,
                            value |-> read_values[i]]]
        input_offset_ok ==
            \A i \in 1..NUM_MEMORY_READS_PER_CYCLE :
                u32_add_no_overflow(precompile_call_params.input_offset + (i - 1), 1)[2]
        memory_after_reads == push_read_queries(memory_queue_, read_queries, should_process, 1)
        success_as_u256 == IF routine.all_ok THEN 1 ELSE 0
        success_query == [timestamp |-> timestamp_to_use_for_write[1],
                          memory_page |-> precompile_call_params.output_page,
                          index |-> precompile_call_params.output_offset,
                          rw_flag |-> TRUE,
                          is_ptr |-> FALSE,
                          value |-> success_as_u256]
        output_offset == u32_add_no_overflow(precompile_call_params.output_offset, 1)
        memory_after_success == queue_push(memory_after_reads, success_query, should_process)
        value_query == [timestamp |-> timestamp_to_use_for_write[1],
                        memory_page |-> precompile_call_params.output_page,
                        index |-> output_offset[1],
                        rw_flag |-> TRUE,
                        is_ptr |-> FALSE,
                        value |-> routine.written_value]
        memory_after_value == queue_push(memory_after_success, value_query, should_process)
    IN [requests_queue |-> popped[2],
        memory_queue |-> memory_after_value,
        processed |-> should_process,
        satisfied |-> /\ timestamp_to_use_for_write[2]
                      /\ aux_byte_ok /\ address_ok
                      /\ input_offset_ok /\ output_offset[2]
                      /\ routine.satisfied]

loop_body_forced(requests_queue_, memory_queue_, queue_witness, reads_witness, routine) ==
    After(routine, loop_body_with(requests_queue_, memory_queue_, queue_witness,
                                  reads_witness, routine))

\* the four words read for a call (zeros in an idle cycle)
loop_read_values(requests_queue_, reads_witness) ==
    [i \in 1..NUM_MEMORY_READS_PER_CYCLE |->
        conditionally_allocate_biased(reads_witness, i, ~queue_is_empty(requests_queue_))]
\* the witness of the calls not yet consumed
witness_rest(witness, consumed, per_call) ==
    SubSeq(witness, consumed * per_call + 1, Len(witness))

MulIdle == [stage |-> "idle"]
EcrIdle == [stage |-> "idle"]
LoopIdle ==
    /\ structured_input = <<>>
    /\ requests_queue = QueueState_empty
    /\ memory_queue = QueueState_empty
    /\ requests_queue_witness = <<>>
    /\ memory_reads_witness = <<>>
    /\ limit = 0
    /\ cycle = 0
    /\ instance = 0
    /\ pc = "idle"

-----------------------------------------------------------------------------
(* Harness of width_4_windowed_multiplication (test_variable_base_mul)     *)

MaxMulPoint == 3
\* every reduced scalar
MulScalars == 0..(secp_n - 1)
MulPoints == {RefMul(j, RefG) : j \in 1..MaxMulPoint}

InitMul ==
    /\ mul \in [stage : {"input"}, point : MulPoints, scalar : MulScalars,
                result : {sw_zero}, satisfied : {TRUE}]
    /\ ecr = EcrIdle
    /\ LoopIdle
MulStep ==
    /\ mul.stage = "input"
    /\ mul' = [mul EXCEPT !.stage = "done",
                 !.result = width_4_windowed_multiplication(
                               from_xy_unchecked(mul.point[1], mul.point[2]), mul.scalar),
                 !.satisfied = width_4_windowed_multiplication_satisfied(mul.scalar)]
    /\ UNCHANGED <<ecr, loop_vars>>
NextMul == MulStep
SpecMul == InitMul /\ [][NextMul]_vars

-----------------------------------------------------------------------------
(* Harness of fixed_base_mul (test_fixed_base_mul)                         *)

\* every reduced scalar
FixedScalars == 0..(secp_n - 1)
InitFixed ==
    /\ mul \in [stage : {"fixed_input"}, scalar : FixedScalars,
                result : {sw_zero}, accumulated : {sw_zero}]
    /\ ecr = EcrIdle
    /\ LoopIdle
\* `accumulated` is acc before the final selection on is_zero
FixedStep ==
    /\ mul.stage = "fixed_input"
    /\ mul' = [mul EXCEPT !.stage = "fixed_done",
                 !.result = fixed_base_mul(mul.scalar),
                 !.accumulated = fixed_base_loop(sw_zero, to_le_bytes(mul.scalar),
                                                 BYTES_PER_WORD - 1)]
    /\ UNCHANGED <<ecr, loop_vars>>
NextFixed == FixedStep
SpecFixed == InitFixed /\ [][NextFixed]_vars

-----------------------------------------------------------------------------
(* Harness of the Legendre symbol and square root chains of the routine     *)

\* every non-zero t (a zero t is replaced before the chains) and both parities
ResidueInputs == 1..(secp_p - 1)
InitResidue ==
    /\ mul \in [stage : {"t_input"}, t : ResidueInputs, y_is_odd : BOOLEAN,
                point : {<<>>}]
    /\ ecr = EcrIdle
    /\ LoopIdle
ResidueStep ==
    /\ mul.stage = "t_input"
    /\ mul' = [mul EXCEPT !.stage = "t_done",
                 !.point = routine_point([y_is_odd |-> mul.y_is_odd, x_fe |-> 0],
                                         t_powers_loop(<<mul.t>>),
                                         valid_x_in_external_field,
                                         valid_y_in_external_field)]
    /\ UNCHANGED <<ecr, loop_vars>>
NextResidue == ResidueStep
SpecResidue == InitResidue /\ [][NextResidue]_vars

-----------------------------------------------------------------------------
(* to_width_4_window_form on the limbs of the scalar.  The limbs are the   *)
(* 16-bit limbs of a normalized reduced element, least significant first:  *)
(* FullWindowLimbs limbs that are decomposed whole (8 in the code), the    *)
(* highest word (limbs[8]) that gives one window, and ZeroWindowLimbs      *)
(* limbs above it (limbs[9..]) that are enforced to be zero.               *)

LIMB_BITS == 16
LIMB_BYTE_BITS == 8
LIMB_BYTE_MOD == 2 ^ LIMB_BYTE_BITS
FullWindowLimbs == 1
ZeroWindowLimbs == 1
\* ByteSplitTable<4> read as the code names its outputs, swapped
byte_split_swapped(byte) == <<byte \div WINDOW_MOD, byte % WINDOW_MOD>>
\* ByteSplitTable<4>: [l, h], the low 4 bits and the bits above them
byte_split(byte) == <<byte % WINDOW_MOD, byte \div WINDOW_MOD>>
\* UInt16::to_be_bytes: [high, low]
uint16_to_be_bytes(word) == <<word \div LIMB_BYTE_MOD, word % LIMB_BYTE_MOD>>
\* the four pushes of one word of limbs[..8]: h, l of high then h, l of low
word_windows(word) ==
    <<byte_split(uint16_to_be_bytes(word)[1])[2], byte_split(uint16_to_be_bytes(word)[1])[1],
      byte_split(uint16_to_be_bytes(word)[2])[2], byte_split(uint16_to_be_bytes(word)[2])[1]>>
RECURSIVE full_limbs_windows(_, _)
\* limbs[..8].iter().rev(), from limb i down to the lowest
full_limbs_windows(limbs, i) ==
    IF i = 0 THEN <<>> ELSE word_windows(limbs[i]) \o full_limbs_windows(limbs, i - 1)
to_width_4_window_form_of_limbs(limbs) ==
    [satisfied |->
        /\ \A i \in (FullWindowLimbs + 2)..Len(limbs) : limbs[i] = 0
        /\ uint16_to_be_bytes(limbs[FullWindowLimbs + 1])[1] = 0
        /\ byte_split(uint16_to_be_bytes(limbs[FullWindowLimbs + 1])[2])[2] = 0,
     result |->
        <<byte_split(uint16_to_be_bytes(limbs[FullWindowLimbs + 1])[2])[1]>>
            \o full_limbs_windows(limbs, FullWindowLimbs)]
\* limb values at the edges of a window, of a byte and of the limb
WindowLimbValues == {0, 1, 15, 16, 17, 255, 256, 4660, 61680, 2 ^ LIMB_BITS - 1}
WindowLimbs == [1..(FullWindowLimbs + 1 + ZeroWindowLimbs) -> WindowLimbValues]
InitWindows ==
    /\ mul \in [stage : {"limbs_input"}, limbs : WindowLimbs,
                satisfied : {TRUE}, result : {<<>>}]
    /\ ecr = EcrIdle
    /\ LoopIdle
WindowFormStep ==
    /\ mul.stage = "limbs_input"
    /\ mul' = [mul EXCEPT !.stage = "limbs_done",
                 !.satisfied = to_width_4_window_form_of_limbs(mul.limbs).satisfied,
                 !.result = to_width_4_window_form_of_limbs(mul.limbs).result]
    /\ UNCHANGED <<ecr, loop_vars>>
NextWindows == WindowFormStep
SpecWindows == InitWindows /\ [][NextWindows]_vars

-----------------------------------------------------------------------------
(* Harness of one step of the loop of width_4_windowed_multiplication: the  *)
(* tables are those of the generator, the endomorphism table negated       *)

StepAffineTable == affine_table(precomputation_tmps(from_xy_unchecked(GEN_X, GEN_Y)))
StepTable == precomputation_table(StepAffineTable, FALSE)
StepEndomorphismsTable == endomorphisms_table(StepAffineTable, TRUE)
\* accumulators: zero, small multiples of the generator, and their doubles
StepAccumulators ==
    {sw_zero} \cup {from_xy_unchecked(Q[1], Q[2]) : Q \in MulPoints}
              \cup {double(from_xy_unchecked(Q[1], Q[2])) : Q \in MulPoints}
InitStep ==
    /\ mul \in [stage : {"step_input"}, acc : StepAccumulators,
                k1_window_idx : 0..(WINDOW_MOD - 1), k2_window_idx : 0..(WINDOW_MOD - 1),
                idx : 1..NUM_MULTIPLICATION_STEPS_FOR_WIDTH_4,
                after_k1 : {sw_zero}, after_k2 : {sw_zero}, result : {sw_zero}]
    /\ ecr = EcrIdle
    /\ LoopIdle
\* after_k1 and after_k2 are acc after each of the two selections of the step
StepAfterK1 == conditional_add_mixed(mul.acc, StepTable, mul.k1_window_idx)
StepAfterK2 ==
    conditional_add_mixed(
        conditional_add_mixed(mul.acc, StepTable, mul.k1_window_idx),
        StepEndomorphismsTable, mul.k2_window_idx)
MultiplicationStep ==
    /\ mul.stage = "step_input"
    /\ mul' = [mul EXCEPT !.stage = "step_done",
                 !.after_k1 = StepAfterK1,
                 !.after_k2 = StepAfterK2,
                 !.result = multiplication_step(mul.acc, StepTable, StepEndomorphismsTable,
                                                mul.k1_window_idx, mul.k2_window_idx,
                                                mul.idx)]
    /\ UNCHANGED <<ecr, loop_vars>>
NextStep == MultiplicationStep
SpecStep == InitStep /\ [][NextStep]_vars

-----------------------------------------------------------------------------
(* Harness of convert_field_element_to_uint256: called on its own, and     *)
(* called from width_4_windowed_multiplication                             *)

MaxModuluses == 3
Trackers == 1..MaxModuluses
\* every element a word can hold, in every form and with every tracker
InitConvert ==
    /\ mul \in [stage : {"element"},
                elem : {NonNativeFieldOverU16(v, f, t) :
                            v \in 0..(WORD_MOD - 1), f \in RepresentationForms, t \in Trackers},
                lazy : {<<>>}, calls : {<<>>}]
    /\ ecr = EcrIdle
    /\ LoopIdle
ConvertStep ==
    /\ mul.stage = "element"
    /\ mul' = [mul EXCEPT !.stage = "converted",
                 !.calls = <<convert_field_element_to_uint256_call(mul.elem)>>]
    /\ UNCHANGED <<ecr, loop_vars>>
\* the element is the multiplier's scalar; it must be reduced for enforce_reduced
MultiplierConvertStep(form, tracker) ==
    /\ mul.stage = "element"
    /\ mul.elem.value < secp_n
    /\ mul' = [mul EXCEPT !.stage = "multiplied",
                 !.lazy = NonNativeFieldOverU16(0, form, tracker),
                 !.calls = glv_conversions(mul.elem, NonNativeFieldOverU16(0, form, tracker))]
    /\ UNCHANGED <<ecr, loop_vars>>
NextConvert ==
    \/ ConvertStep
    \/ \E form \in RepresentationForms, tracker \in Trackers :
          MultiplierConvertStep(form, tracker)
SpecConvert == InitConvert /\ [][NextConvert]_vars

-----------------------------------------------------------------------------
(* Harness of ecrecover_precompile_inner_routine: the inputs are either    *)
(* arbitrary words or a signature made by simulate_signature_for_sk        *)

MaxSmallWord == 2
MaxSecretKey == 3
MaxNonce == 6
RecIds == {0, 1, 2, 3}
SmallWords == 0..MaxSmallWord
RWords == SmallWords \cup {secp_p - secp_n - 1, secp_p - secp_n, WORD_MOD - secp_n - 1,
                           WORD_MOD - secp_n, secp_n - 1, secp_n, secp_n + 1,
                           secp_p - 1, secp_p, WORD_MOD - 1}
SWords == SmallWords \cup {secp_n - 1, secp_n, WORD_MOD - 1}
DigestWords == SmallWords \cup {secp_n, WORD_MOD - 1}
NoResult == [all_ok |-> FALSE]

EcrRawInputs ==
    [stage : {"input"}, recid : RecIds, r : RWords, s : SWords, digest : DigestWords,
     zero_ok : BOOLEAN, signed : {FALSE}, sk : {0}, k : {0}, result : {NoResult}]
EcrKeys ==
    [stage : {"key"}, recid : {0}, r : {0}, s : {0}, digest : DigestWords,
     zero_ok : BOOLEAN, signed : {FALSE}, sk : 1..MaxSecretKey, k : 1..MaxNonce,
     result : {NoResult}]

InitRecover ==
    /\ ecr \in EcrRawInputs \cup EcrKeys
    /\ mul = MulIdle
    /\ LoopIdle

\* simulate_signature_for_sk: r is the nonce point's x reduced into the scalar
\* field, s = (r * sk + digest) / k; the helper fails when r or s has no inverse
signature_r(k) == RefMul(k, RefG)[1] % secp_n
signature_s(sk, k, digest) ==
    nn_mul(nn_add(nn_mul(signature_r(k), sk, secp_n), digest, secp_n),
           nn_inverse(k, secp_n), secp_n)
Sign(recid) ==
    /\ ecr.stage = "key"
    /\ signature_r(ecr.k) # 0
    /\ signature_s(ecr.sk, ecr.k, ecr.digest) # 0
    /\ ecr' = [ecr EXCEPT !.stage = "input", !.signed = TRUE, !.recid = recid,
                 !.r = signature_r(ecr.k),
                 !.s = signature_s(ecr.sk, ecr.k, ecr.digest)]
    /\ UNCHANGED <<mul, loop_vars>>
Recover ==
    /\ ecr.stage = "input"
    /\ ecr' = [ecr EXCEPT !.stage = "done",
                 !.result = ecrecover_precompile_inner_routine(
                     ecr.recid, ecr.r, ecr.s, ecr.digest, ecr.zero_ok,
                     valid_x_in_external_field, valid_y_in_external_field,
                     valid_t_in_external_field)]
    /\ UNCHANGED <<mul, loop_vars>>
NextRecover ==
    \/ \E recid \in RecIds : Sign(recid)
    \/ Recover
SpecRecover == InitRecover /\ [][NextRecover]_vars

-----------------------------------------------------------------------------
(* Harness of two calls that differ in the word of the recovery id: the    *)
(* loop takes the lowest byte of the word and hands it to the routine      *)

\* the highest byte of the word taken for the lowest
rec_id_high_byte(v_as_u256) == to_le_bytes(v_as_u256)[BYTES_PER_WORD]
\* v_as_u256.inner[0].to_le_bytes(cs)[0]
rec_id(v_as_u256) == to_le_bytes(v_as_u256)[1]
\* words of the recovery id: every byte, under upper bytes all clear or all set
RecidWords == {byte + BYTE_MOD * upper : byte \in 0..(BYTE_MOD - 1), upper \in {0, BYTE_MOD - 1}}
\* r, s and digest: signatures of small keys, and words that fail or overflow
RecidSignatures ==
    {<<signature_r(k), signature_s(sk, k, digest), digest>> :
        sk \in 1..2, k \in 1..3, digest \in {0, 5}}
        \cup {<<r, 1, 1>> : r \in {0, secp_p - secp_n, WORD_MOD - secp_n, 59}}
RoutineOnRecids ==
    [input \in (0..(BYTE_MOD - 1)) \X RecidSignatures |->
        ecrecover_precompile_inner_routine(
            input[1], input[2][1], input[2][2], input[2][3],
            ALLOW_ZERO_MESSAGE, valid_x_in_external_field, valid_y_in_external_field,
            valid_t_in_external_field)]
InitRecid ==
    /\ \E v1 \in RecidWords, v2 \in RecidWords, signature \in RecidSignatures :
          ecr = [stage |-> "pair_input", v1 |-> v1, v2 |-> v2,
                 r |-> signature[1], s |-> signature[2], digest |-> signature[3],
                 result1 |-> NoResult, result2 |-> NoResult]
    /\ mul = MulIdle
    /\ LoopIdle
RecoverPair ==
    /\ ecr.stage = "pair_input"
    /\ ecr' = [ecr EXCEPT !.stage = "pair_done",
                 !.result1 = RoutineOnRecids[<<rec_id(ecr.v1), <<ecr.r, ecr.s, ecr.digest>>>>],
                 !.result2 = RoutineOnRecids[<<rec_id(ecr.v2), <<ecr.r, ecr.s, ecr.digest>>>>]]
    /\ UNCHANGED <<mul, loop_vars>>
NextRecid == RecoverPair
SpecRecid == InitRecid /\ [][NextRecid]_vars

-----------------------------------------------------------------------------
(* The call loop, ecrecover_function_entry_point: a chain of instances     *)
(* drains the queue of calls that an earlier circuit committed to          *)

MaxQueue == 2
MaxLimit == 2
MaxInstances == 3

LogQuery(aux_byte, address, timestamp, input_offset, output_offset, input_page, output_page) ==
    [aux_byte |-> aux_byte, address |-> address, timestamp |-> timestamp,
     key |-> <<input_offset, 4, output_offset, 2, input_page, output_page, 0, 0>>]
\* a call: the request and the four words its reads return
SignedReads(sk, k, digest, high_bits) ==
    <<digest,
      (IF RefMul(k, RefG)[2] % 2 = 1 THEN 1 ELSE 0) + 4 * high_bits + BYTE_MOD * high_bits,
      signature_r(k), signature_s(sk, k, digest)>>
Calls ==
    {[request |-> LogQuery(PRECOMPILE_AUX_BYTE,
                           ECRECOVER_INNER_FUNCTION_PRECOMPILE_FORMAL_ADDRESS, 3, 2, 7, 1, 2),
      reads |-> SignedReads(2, 1, 5, 0)],
     [request |-> LogQuery(PRECOMPILE_AUX_BYTE,
                           ECRECOVER_INNER_FUNCTION_PRECOMPILE_FORMAL_ADDRESS,
                           U32_MAX - 1, U32_MAX - 4, U32_MAX - 1, 3, 3),
      reads |-> SignedReads(3, 2, 0, 1)],
     [request |-> LogQuery(PRECOMPILE_AUX_BYTE,
                           ECRECOVER_INNER_FUNCTION_PRECOMPILE_FORMAL_ADDRESS, 0, 0, 0, 0, 0),
      reads |-> <<1, 0, 2, 0>>],
     [request |-> LogQuery(PRECOMPILE_AUX_BYTE + 1,
                           ECRECOVER_INNER_FUNCTION_PRECOMPILE_FORMAL_ADDRESS, 3, 2, 7, 1, 2),
      reads |-> SignedReads(2, 1, 5, 0)],
     [request |-> LogQuery(PRECOMPILE_AUX_BYTE,
                           ECRECOVER_INNER_FUNCTION_PRECOMPILE_FORMAL_ADDRESS + 1, 3, 2, 7, 1, 2),
      reads |-> SignedReads(2, 1, 5, 0)],
     [request |-> LogQuery(PRECOMPILE_AUX_BYTE,
                           ECRECOVER_INNER_FUNCTION_PRECOMPILE_FORMAL_ADDRESS,
                           U32_MAX, 2, 7, 1, 2),
      reads |-> SignedReads(2, 1, 5, 0)],
     [request |-> LogQuery(PRECOMPILE_AUX_BYTE,
                           ECRECOVER_INNER_FUNCTION_PRECOMPILE_FORMAL_ADDRESS,
                           3, U32_MAX - 3, 7, 1, 2),
      reads |-> SignedReads(2, 1, 5, 0)]}
\* the words a cycle can read: those of a call, or zeros in an idle cycle
LoopReadValues == {call.reads : call \in Calls} \cup {<<0, 0, 0, 0>>}
\* the routine on the words read: recovery id is the low byte of the second word
RoutineOnReads ==
    [read_values \in LoopReadValues |->
        ecrecover_precompile_inner_routine(
            to_le_bytes(read_values[2])[1], read_values[3], read_values[4], read_values[1],
            ALLOW_ZERO_MESSAGE, valid_x_in_external_field, valid_y_in_external_field,
            valid_t_in_external_field)]
loop_routine(read_values) == RoutineOnReads[read_values]
loop_body(requests_queue_, memory_queue_, queue_witness, reads_witness) ==
    loop_body_forced(requests_queue_, memory_queue_, queue_witness, reads_witness,
                   loop_routine(loop_read_values(requests_queue_, reads_witness)))

CallLists == UNION {[1..len -> Calls] : len \in 0..MaxQueue}

RECURSIVE flatten_reads(_, _)
flatten_reads(calls, i) ==
    IF i = 0 THEN <<>> ELSE flatten_reads(calls, i - 1) \o calls[i].reads
\* the queue of calls as the earlier circuit left it, nothing popped yet
committed_log_queue(calls) ==
    [head |-> <<>>, tail |-> [i \in 1..Len(calls) |-> calls[i].request],
     length |-> Len(calls)]
\* a request that is not the committed one
forged_request(request) == [request EXCEPT !.timestamp = (@ + 1) % U32_MAX]
QueueWitnesses(calls) ==
    {[i \in 1..Len(calls) |-> calls[i].request]}
        \cup {[i \in 1..Len(calls) |->
                 IF i = j THEN forged_request(calls[i].request) ELSE calls[i].request] :
              j \in 1..Len(calls)}
earlier_query ==
    [timestamp |-> 1, memory_page |-> 9, index |-> 0, rw_flag |-> TRUE, is_ptr |-> FALSE,
     value |-> 1]
InitialMemoryStates ==
    {[head |-> <<>>, tail |-> <<earlier_query>>, length |-> 1],
     [head |-> <<earlier_query>>, tail |-> <<earlier_query>>, length |-> 0]}
\* what the first instance may find in its unused hidden input
FirstHiddenInputs ==
    {[log_queue_state |-> QueueState_placeholder, memory_queue_state |-> QueueState_placeholder],
     [log_queue_state |-> [head |-> <<>>, tail |-> <<LogQuery_placeholder>>, length |-> 1],
      memory_queue_state |-> [head |-> <<>>, tail |-> <<>>, length |-> 0]]}
EcrecoverCircuitFSMInputOutput_placeholder ==
    [log_queue_state |-> QueueState_placeholder, memory_queue_state |-> QueueState_placeholder]
PrecompileFunctionOutputData_placeholder == [final_memory_state |-> QueueState_placeholder]

\* the closed-form input of the first instance and the chain's witnesses
Init ==
    /\ \E calls \in CallLists, memory_state \in InitialMemoryStates,
          hidden \in FirstHiddenInputs :
         /\ structured_input =
              [start_flag |-> TRUE,
               completion_flag |-> FALSE,
               observable_input |-> [initial_log_queue_state |-> committed_log_queue(calls),
                                     initial_memory_queue_state |-> memory_state],
               observable_output |-> PrecompileFunctionOutputData_placeholder,
               hidden_fsm_input |-> hidden,
               hidden_fsm_output |-> EcrecoverCircuitFSMInputOutput_placeholder]
         /\ requests_queue_witness \in QueueWitnesses(calls)
         /\ memory_reads_witness = flatten_reads(calls, Len(calls))
    /\ requests_queue = QueueState_empty
    /\ memory_queue = QueueState_empty
    /\ limit = 0
    /\ cycle = 0
    /\ instance = 0
    /\ pc = "next"
    /\ mul = MulIdle
    /\ ecr = EcrIdle

\* the next instance's closed-form input: the first instance starts, a later
\* one carries the hidden output of the one before it
closed_form_input ==
    IF instance = 0 THEN structured_input
    ELSE [structured_input EXCEPT
            !.start_flag = FALSE,
            !.hidden_fsm_input = structured_input.hidden_fsm_output]
alloc_ignoring_outputs(witness) ==
    [witness EXCEPT !.completion_flag = FALSE,
                    !.observable_output = PrecompileFunctionOutputData_placeholder,
                    !.hidden_fsm_output = EcrecoverCircuitFSMInputOutput_placeholder]
conditionally_select(flag, a, b) == IF flag THEN a ELSE b
requests_queue_state_of(input) ==
    conditionally_select(input.start_flag,
                         input.observable_input.initial_log_queue_state,
                         input.hidden_fsm_input.log_queue_state)
memory_queue_state_of_swapped(input) ==
    conditionally_select(input.start_flag,
                         input.hidden_fsm_input.memory_queue_state,
                         input.observable_input.initial_memory_queue_state)
memory_queue_state_of(input) ==
    conditionally_select(input.start_flag,
                         input.observable_input.initial_memory_queue_state,
                         input.hidden_fsm_input.memory_queue_state)
trivial_heads(input) ==
    /\ enforce_trivial_head(input.observable_input.initial_log_queue_state)
    /\ enforce_trivial_head(input.observable_input.initial_memory_queue_state)

\* entry of an instance, up to the loop
\* an assertion that lets one more limit through
limit_assertion_off_by_one(limit_) == limit_ <= U32_MAX + 1
\* assert!(limit <= u32::MAX as usize)
limit_assertion(limit_) == limit_ <= U32_MAX

StartInstance(limit_) ==
    /\ pc \in {"next", "done"}
    /\ instance < MaxInstances
    /\ limit_assertion(limit_)
    /\ structured_input' = alloc_ignoring_outputs(closed_form_input)
    /\ requests_queue' = requests_queue_state_of(structured_input')
    /\ memory_queue' = memory_queue_state_of(structured_input')
    /\ limit' = limit_
    /\ cycle' = 0
    /\ instance' = instance + 1
    /\ pc' = IF trivial_heads(structured_input') THEN "loop" ELSE "rejected"
    /\ UNCHANGED <<requests_queue_witness, memory_reads_witness, mul, ecr>>

\* the calls whose witness the chain has used up
consumed == Len(requests_queue.head)
Cycle ==
    /\ pc = "loop"
    /\ cycle < limit
    /\ \E out \in {loop_body(requests_queue, memory_queue,
                               witness_rest(requests_queue_witness, consumed, 1),
                               witness_rest(memory_reads_witness, consumed,
                                            NUM_MEMORY_READS_PER_CYCLE))} :
          /\ requests_queue' = out.requests_queue
          /\ memory_queue' = out.memory_queue
          /\ pc' = IF out.satisfied THEN "loop" ELSE "rejected"
    /\ cycle' = cycle + 1
    /\ UNCHANGED <<structured_input, requests_queue_witness, memory_reads_witness, limit,
                   instance, mul, ecr>>

final_structured_input_masked_hidden(input, requests_queue_, memory_queue_) ==
    [input EXCEPT
       !.completion_flag = queue_is_empty(requests_queue_),
       !.observable_output =
           [final_memory_state |->
              conditionally_select(queue_is_empty(requests_queue_), memory_queue_,
                  PrecompileFunctionOutputData_placeholder.final_memory_state)],
       !.hidden_fsm_output =
           [log_queue_state |-> requests_queue_,
            memory_queue_state |->
              conditionally_select(queue_is_empty(requests_queue_), memory_queue_,
                  PrecompileFunctionOutputData_placeholder.final_memory_state)]]
\* the observable output not masked by the completion flag
final_structured_input_unmasked_output(input, requests_queue_, memory_queue_) ==
    [input EXCEPT
       !.completion_flag = queue_is_empty(requests_queue_),
       !.observable_output = [final_memory_state |-> memory_queue_],
       !.hidden_fsm_output = [log_queue_state |-> requests_queue_,
                              memory_queue_state |-> memory_queue_]]
\* after the loop: consistency, completion flag and the outputs
final_structured_input(input, requests_queue_, memory_queue_) ==
    LET done == queue_is_empty(requests_queue_)
        final_memory_state == memory_queue_
        final_requets_state == requests_queue_
    IN [input EXCEPT
          !.completion_flag = done,
          !.observable_output =
              [final_memory_state |->
                 conditionally_select(done, final_memory_state,
                     PrecompileFunctionOutputData_placeholder.final_memory_state)],
          !.hidden_fsm_output = [log_queue_state |-> final_requets_state,
                                 memory_queue_state |-> final_memory_state]]
Finish ==
    /\ pc = "loop"
    /\ cycle = limit
    /\ structured_input' = final_structured_input(structured_input, requests_queue, memory_queue)
    /\ pc' = IF enforce_consistency(requests_queue) THEN "done" ELSE "rejected"
    /\ UNCHANGED <<requests_queue, memory_queue, requests_queue_witness, memory_reads_witness,
                   limit, cycle, instance, mul, ecr>>

Next ==
    \/ \E limit_ \in 0..MaxLimit : StartInstance(limit_)
    \/ Cycle
    \/ Finish
Spec == Init /\ [][Next]_vars
\* the chain is driven on: an instance that can start or step does so
FairSpec == Init /\ [][Next]_vars /\ WF_vars(Next)

-----------------------------------------------------------------------------
(* The entry point called with limits around u32::MAX                      *)

\* the assertion fails: the call panics before it reads the witness or
\* allocates anything
RejectLimit(limit_) ==
    /\ pc \in {"next", "done"}
    /\ instance < MaxInstances
    /\ ~limit_assertion(limit_)
    /\ limit' = limit_
    /\ pc' = "panicked"
    /\ UNCHANGED <<structured_input, requests_queue, memory_queue, requests_queue_witness,
                   memory_reads_witness, cycle, instance, mul, ecr>>
AcceptedLimits == {0, 1, U32_MAX - 1, U32_MAX}
RejectedLimits == {U32_MAX + 1, U32_MAX + 2, 2 * U32_MAX, WORD_MOD}
\* queues of at most one call: the limit is what varies here
InitLimits ==
    /\ Init
    /\ Len(requests_queue_witness) <= 1
NextLimits ==
    \/ \E limit_ \in AcceptedLimits \cup RejectedLimits : StartInstance(limit_)
    \/ \E limit_ \in AcceptedLimits \cup RejectedLimits : RejectLimit(limit_)
    \/ Cycle
    \/ Finish
SpecLimits == InitLimits /\ [][NextLimits]_vars

\* the whole entry point as one function of its closed-form input and witnesses
RECURSIVE loop_cycles(_, _, _, _, _, _)
loop_cycles_after(out, queue_witness, reads_witness, remaining, satisfied) ==
    After(out, loop_cycles(out.requests_queue, out.memory_queue, queue_witness,
                           reads_witness, remaining - 1, satisfied /\ out.satisfied))
loop_cycles(requests_queue_, memory_queue_, queue_witness, reads_witness, remaining, satisfied) ==
    IF remaining = 0
    THEN [requests_queue |-> requests_queue_, memory_queue |-> memory_queue_,
          satisfied |-> satisfied]
    ELSE loop_cycles_after(
             loop_body(requests_queue_, memory_queue_,
                       witness_rest(queue_witness, Len(requests_queue_.head), 1),
                       witness_rest(reads_witness, Len(requests_queue_.head),
                                    NUM_MEMORY_READS_PER_CYCLE)),
             queue_witness, reads_witness, remaining, satisfied)
entry_point_after_loop(input, limit_, out) ==
    [structured_input |->
        final_structured_input(input, out.requests_queue, out.memory_queue),
     requests_queue |-> out.requests_queue,
     memory_queue |-> out.memory_queue,
     satisfied |-> /\ limit_ <= U32_MAX
                   /\ trivial_heads(input)
                   /\ out.satisfied
                   /\ enforce_consistency(out.requests_queue)]
entry_point_allocated(input, limit_, queue_witness, reads_witness) ==
    entry_point_after_loop(
        input, limit_,
        loop_cycles(requests_queue_state_of(input), memory_queue_state_of(input),
                    queue_witness, reads_witness, limit_, TRUE))
ecrecover_function_entry_point(witness, limit_, queue_witness, reads_witness) ==
    entry_point_allocated(alloc_ignoring_outputs(witness), limit_, queue_witness,
                          reads_witness)

-----------------------------------------------------------------------------
(* Reference reading of a recovery: what the inputs mean, stated with the  *)
(* affine group law and by search, not with the routine's own steps        *)

RefBitOfRecId(recid, i) == (recid \div (2 ^ i)) % 2 = 1
\* the x coordinate the inputs name, as an integer: r, or r + n when bit 1 is set
RefXCandidate(recid, r) == r + (IF RefBitOfRecId(recid, 1) THEN secp_n ELSE 0)
RefXWord(recid, r) == RefXCandidate(recid, r) % WORD_MOD
RefXInField(recid, r) == IF RefXWord(recid, r) >= secp_p THEN 0 ELSE RefXWord(recid, r)
RefT(recid, r) ==
    (RefXInField(recid, r) * RefXInField(recid, r) * RefXInField(recid, r) + SECP_B_COEF)
        % secp_p
RefSquares == {(y * y) % secp_p : y \in 1..(secp_p - 1)}
RefIsResidue(t) == (t % secp_p) \in RefSquares
RefIsNonResidue(t) == t % secp_p # 0 /\ ~RefIsResidue(t)
\* the curve point with the named x and the y parity of bit 0
RefRoots ==
    [t \in RefSquares |-> {y \in 1..(secp_p - 1) : (y * y) % secp_p = t}]
RefRecoveredX(recid, r) ==
    LET x == RefXInField(recid, r)
        y == CHOOSE y \in RefRoots[RefT(recid, r)] : (y % 2 = 1) = RefBitOfRecId(recid, 0)
    IN <<x, y>>
RefNonZero(v) == IF v = 0 THEN 1 ELSE v
\* (s / r) * X - (digest / r) * G
RefRecoveredKey(recid, r, s, digest, zero_ok) ==
    LET r_inv == FrInverse[RefNonZero(r) % secp_n]
        u2 == ((RefNonZero(s) % secp_n) * r_inv) % secp_n
        h == IF zero_ok THEN digest % secp_n ELSE RefNonZero(digest) % secp_n
        u1 == (secp_n - ((h * r_inv) % secp_n)) % secp_n
    IN RefAdd(RefMul(u2, RefRecoveredX(recid, r)), RefMul(u1, RefG))
\* v carries the last bytes of keccak256(Q.x || Q.y) under zeroed top bytes
RefIsAddressOf(v, Q) ==
    LET digest_bytes == keccak256(to_be_bytes(Q[1]) \o to_be_bytes(Q[2]))
    IN /\ v \in 0..(WORD_MOD - 1)
       /\ \A i \in 1..BYTES_PER_WORD :
            to_be_bytes(v)[i] = IF i <= ADDRESS_ZEROED_BYTES THEN 0 ELSE digest_bytes[i]

EcrDone == ecr.stage = "done"
EcrNoncePoint == RefMul(ecr.k, RefG)
\* the recovery id that belongs to the signature: bit 0 is the parity of the
\* nonce point's y, bit 1 tells that the nonce point's x is r + n
EcrRecIdMatches ==
    /\ RefBitOfRecId(ecr.recid, 0) = (EcrNoncePoint[2] % 2 = 1)
    /\ RefBitOfRecId(ecr.recid, 1) = (EcrNoncePoint[1] >= secp_n)
EcrSignedRun == EcrDone /\ ecr.signed /\ EcrRecIdMatches
EcrAnyFlag == \E i \in 1..Len(ecr.result.exception_flags) : ecr.result.exception_flags[i]

\* C1 as stated: every signature made with a private key, presented with its
\* recovery id, recovers validity = true and the signer's address.
C1_SignedRecovers ==
    EcrSignedRun =>
        /\ ecr.result.satisfied
        /\ ecr.result.all_ok
        /\ RefIsAddressOf(ecr.result.written_value, RefMul(ecr.sk, RefG))
\* C1 amended: the same for every signature whose digest is not the zero word,
\* and for the zero digest too when the zero-digest policy is 'allowed'.
C1_SignedRecoversUnderPolicy ==
    (EcrSignedRun /\ (ecr.zero_ok \/ ecr.digest # 0)) =>
        /\ ecr.result.satisfied
        /\ ecr.result.all_ok
        /\ RefIsAddressOf(ecr.result.written_value, RefMul(ecr.sk, RefG))
C1_Witness ==
    /\ EcrSignedRun /\ ecr.result.all_ok
    /\ ecr.result.written_value # 0
    /\ RefBitOfRecId(ecr.recid, 0)
    /\ ecr.digest # 0 /\ ~ecr.zero_ok

\* C2: whenever a flag is raised the value is the all-zero word, whichever
\* flags they are; the value is never non-zero while validity is false.
C2_MaskedOnException ==
    EcrDone =>
        /\ EcrAnyFlag => ecr.result.written_value = 0
        /\ ~ecr.result.all_ok => ecr.result.written_value = 0
C2_Witness ==
    /\ EcrDone /\ ecr.result.satisfied
    /\ ecr.result.exception_flags[8] /\ ~ecr.result.exception_flags[7]
    /\ ecr.result.written_value_unmasked # 0
    /\ ecr.result.written_value = 0

\* the eight flags by their meaning, in the order the routine collects them;
\* the last one is read only when the candidate x names a curve point
EcrRefFlag(i) ==
    CASE i = 1 -> RefBitOfRecId(ecr.recid, 1) /\ ecr.r + secp_n >= WORD_MOD
      [] i = 2 -> RefXWord(ecr.recid, ecr.r) >= secp_p
      [] i = 3 -> ecr.r = 0
      [] i = 4 -> ecr.s = 0
      [] i = 5 -> ~ecr.zero_ok /\ ecr.digest = 0
      [] i = 6 -> RefT(ecr.recid, ecr.r) = 0
      [] i = 7 -> RefIsNonResidue(RefT(ecr.recid, ecr.r))
      [] i = 8 -> RefRecoveredKey(ecr.recid, ecr.r, ecr.s, ecr.digest, ecr.zero_ok) = RefInf
EcrRefOnCurve == ~EcrRefFlag(6) /\ ~EcrRefFlag(7)
\* C3: validity is NOT(OR) of the eight flags, each flag meaning what the
\* list says, collected in the list's order.
C3_ValidityIsNorOfFlags ==
    (EcrDone /\ ecr.result.satisfied) =>
        /\ Len(ecr.result.exception_flags) = 8
        /\ \A i \in 1..7 : ecr.result.exception_flags[i] = EcrRefFlag(i)
        /\ EcrRefOnCurve => ecr.result.exception_flags[8] = EcrRefFlag(8)
        /\ ecr.result.all_ok = ~EcrAnyFlag
        /\ ecr.result.all_ok =
             ~(\/ \E i \in 1..7 : EcrRefFlag(i)
               \/ EcrRefFlag(8))
C3_Witness ==
    /\ EcrDone /\ ecr.result.satisfied
    /\ ecr.result.exception_flags[2] /\ ecr.result.exception_flags[4]
    /\ ~ecr.result.exception_flags[1] /\ ~ecr.result.exception_flags[3]
    /\ ~ecr.result.all_ok

\* r names no curve point: the candidate x is no base-field element, or no y
\* has y^2 = x^3 + 7
RefUnrecoverable(recid, r) ==
    \/ RefXCandidate(recid, r) >= secp_p
    \/ ~RefIsResidue(RefT(recid, r))
\* C4: r = 0, s = 0, a zero digest under the 'not allowed' policy, or an
\* unrecoverable r such as the all-ones word, give validity = false and the
\* all-zero value whatever the other inputs are.
C4_ZeroInputsRejected ==
    (/\ EcrDone
     /\ \/ ecr.r = 0
        \/ ecr.s = 0
        \/ ~ecr.zero_ok /\ ecr.digest = 0
        \/ ecr.r = WORD_MOD - 1
        \/ RefUnrecoverable(ecr.recid, ecr.r)) =>
        /\ ~ecr.result.all_ok
        /\ ecr.result.written_value = 0
C4_Witness ==
    /\ EcrDone /\ ecr.s = 0
    /\ ecr.r # 0 /\ ~RefUnrecoverable(ecr.recid, ecr.r) /\ ecr.digest # 0
    /\ ecr.result.exception_flags = <<FALSE, FALSE, FALSE, TRUE, FALSE, FALSE, FALSE, FALSE>>
    /\ ecr.result.written_value_unmasked # 0

\* r and s in 1 .. n - 1 and r the x of a curve point
EcrValidRS ==
    /\ ecr.r \in 1..(secp_n - 1) /\ ecr.s \in 1..(secp_n - 1)
    /\ ~RefBitOfRecId(ecr.recid, 1) /\ ~RefUnrecoverable(ecr.recid, ecr.r)
\* C5: under the 'allowed' policy a zero digest raises no exception: with valid
\* r and s the result is valid and is the address of (s / r) * X, the
\* fixed-base term being the point at infinity, left out of the final addition.
C5_ZeroDigestAllowed ==
    (EcrDone /\ ecr.zero_ok /\ ecr.digest = 0 /\ EcrValidRS) =>
        /\ ecr.result.satisfied
        /\ ~EcrAnyFlag /\ ecr.result.all_ok
        /\ ecr.result.hash_times_g_is_infinity
        /\ RefIsAddressOf(ecr.result.written_value,
               RefMul((ecr.s * FrInverse[ecr.r]) % secp_n, RefRecoveredX(ecr.recid, ecr.r)))
C5_Witness ==
    /\ EcrDone /\ ecr.zero_ok /\ ecr.digest = 0 /\ EcrValidRS
    /\ ~ecr.signed /\ ecr.s # ecr.r
    /\ ecr.result.all_ok /\ ecr.result.written_value # 0


-----------------------------------------------------------------------------
(* The chain of instances against one instance that drains the whole queue *)

QueueLength == structured_input.observable_input.initial_log_queue_state.length
\* the calls the instances before this one popped
PoppedBefore == Len(requests_queue_state_of(structured_input).head)
\* the live request queue's length when this instance was entered
LengthAtEntry == requests_queue_state_of(structured_input).length
\* one instance with the start flag and cycle limit m on the chain's input
SingleRun(m) ==
    ecrecover_function_entry_point([structured_input EXCEPT !.start_flag = TRUE], m,
                                   requests_queue_witness, memory_reads_witness)
SingleRunAgrees(one) ==
    /\ one.satisfied
    /\ one.requests_queue = requests_queue
    /\ one.memory_queue = memory_queue
SplitRunDone ==
    /\ pc = "done" /\ instance = 2
    /\ limit >= QueueLength - PoppedBefore

\* C6: a run with the start flag and limit k followed by a run without it whose
\* hidden input is the first run's hidden output and whose limit is at least
\* N - k ends with the request-queue and memory-queue states of one run with
\* the start flag and a limit of at least N; a chain that is rejected within
\* its first two instances has no accepted single run either.
C6_SplitRunEquivalence ==
    /\ SplitRunDone =>
         \A m \in QueueLength..(QueueLength + 1) : SingleRunAgrees(SingleRun(m))
    /\ (pc = "rejected" /\ instance \in {1, 2}) =>
         \A m \in QueueLength..(QueueLength + 1) : ~SingleRun(m).satisfied
C6_Witness ==
    /\ SplitRunDone
    /\ QueueLength = 2 /\ PoppedBefore = 1
    /\ structured_input.completion_flag
    /\ memory_queue.length =
         structured_input.observable_input.initial_memory_queue_state.length + 12

\* C7: when an instance enters its loop both live queue states are the
\* observable input's if the start flag is set and both are the hidden FSM
\* input's if it is not; the start flag is set in the first instance only.
C7_QueueStatesFromOneSource ==
    (pc \in {"loop", "rejected"} /\ cycle = 0) =>
        /\ structured_input.start_flag = (instance = 1)
        /\ IF structured_input.start_flag
           THEN /\ requests_queue =
                     structured_input.observable_input.initial_log_queue_state
                /\ memory_queue =
                     structured_input.observable_input.initial_memory_queue_state
           ELSE /\ requests_queue = structured_input.hidden_fsm_input.log_queue_state
                /\ memory_queue = structured_input.hidden_fsm_input.memory_queue_state
C7_Witness ==
    /\ pc = "loop" /\ cycle = 0 /\ ~structured_input.start_flag
    /\ structured_input.hidden_fsm_input.log_queue_state #
         structured_input.observable_input.initial_log_queue_state
    /\ structured_input.hidden_fsm_input.memory_queue_state #
         structured_input.observable_input.initial_memory_queue_state
    /\ requests_queue.length > 0

\* the six queries of a call, from its request and the four words read
ExpectedRead(request, reads, i) ==
    [timestamp |-> request.timestamp,
     memory_page |-> from_encoding(request.key).input_page,
     index |-> from_encoding(request.key).input_offset + i,
     rw_flag |-> FALSE, is_ptr |-> FALSE, value |-> reads[i + 1]]
ExpectedWrite(request, i, value) ==
    [timestamp |-> request.timestamp + 1,
     memory_page |-> from_encoding(request.key).output_page,
     index |-> from_encoding(request.key).output_offset + i,
     rw_flag |-> TRUE, is_ptr |-> FALSE, value |-> value]
ExpectedQueriesOf(request, reads, result) ==
    <<ExpectedRead(request, reads, 0), ExpectedRead(request, reads, 1),
      ExpectedRead(request, reads, 2), ExpectedRead(request, reads, 3),
      ExpectedWrite(request, 0, IF result.all_ok THEN 1 ELSE 0),
      ExpectedWrite(request, 1, result.written_value)>>
\* reads carry digest, recovery id, r, s in this order
ExpectedQueries(request, reads) ==
    ExpectedQueriesOf(request, reads,
        ecrecover_precompile_inner_routine(
            reads[2] % BYTE_MOD, reads[3], reads[4], reads[1], ALLOW_ZERO_MESSAGE,
            valid_x_in_external_field, valid_y_in_external_field,
            valid_t_in_external_field))
RECURSIVE ExpectedTail(_, _)
ExpectedTail(tail, i) ==
    IF i > consumed THEN tail
    ELSE ExpectedTail(
             tail \o ExpectedQueries(requests_queue.head[i],
                                     SubSeq(memory_reads_witness,
                                            NUM_MEMORY_READS_PER_CYCLE * (i - 1) + 1,
                                            NUM_MEMORY_READS_PER_CYCLE * i)),
             i + 1)

\* C8: the memory queue holds, after what it held before the chain, the six
\* queries of every popped call in order: four reads at input_offset + i with
\* the request's timestamp T carrying digest, recovery id, r, s, then the
\* write of the success word (0 or 1) at output_offset and the write of the
\* recovered value at output_offset + 1, both with timestamp T + 1.
C8_ReadsThenWrites ==
    (pc \in {"loop", "done"}) =>
        /\ memory_queue.tail =
             ExpectedTail(structured_input.observable_input.initial_memory_queue_state.tail, 1)
        /\ memory_queue.length =
             structured_input.observable_input.initial_memory_queue_state.length
                 + 6 * consumed
C8_Witness ==
    /\ pc = "loop" /\ consumed = 2
    /\ \E i \in 1..Len(memory_queue.tail) :
         /\ memory_queue.tail[i].rw_flag
         /\ memory_queue.tail[i].timestamp = U32_MAX
         /\ memory_queue.tail[i].index = U32_MAX
         /\ memory_queue.tail[i].value # 0
    /\ \E i \in 1..Len(memory_queue.tail) :
         /\ memory_queue.tail[i].rw_flag
         /\ memory_queue.tail[i].index = 0
         /\ memory_queue.tail[i].value = 0

Min(a, b) == IF a <= b THEN a ELSE b
PoppedHere == consumed - PoppedBefore
Completed == pc = "done" /\ structured_input.completion_flag
\* C9: an instance pops exactly min(limit, L) calls from the front, in order;
\* when it ends the queue is consistent and the completion flag is set iff the
\* queue is empty, that is iff L <= limit; a chain whose instances all have a
\* limit of at least 1 eventually reports completion, unless it is rejected.
C9_DrainsAndCompletes ==
    /\ [](/\ (pc = "loop") =>
              /\ PoppedHere = Min(cycle, LengthAtEntry)
              /\ requests_queue.length = LengthAtEntry - PoppedHere
              /\ requests_queue.head = SubSeq(requests_queue_witness, 1, consumed)
          /\ (pc = "done") =>
              /\ PoppedHere = Min(limit, LengthAtEntry)
              /\ requests_queue.head = SubSeq(requests_queue_witness, 1, consumed)
              /\ structured_input.completion_flag = queue_is_empty(requests_queue)
              /\ structured_input.completion_flag = (LengthAtEntry <= limit)
              /\ structured_input.completion_flag =>
                   requests_queue.head =
                       structured_input.observable_input.initial_log_queue_state.tail)
    /\ <>(\/ Completed
          \/ pc = "rejected"
          \/ pc = "loop" /\ limit = 0)
C9_Witness ==
    /\ Completed /\ instance = 2
    /\ LengthAtEntry = 1 /\ limit = 2 /\ PoppedHere = 1
    /\ QueueLength = 2

-----------------------------------------------------------------------------
\* C10: for every reduced scalar s, 0, 1 and n - 1 among them, and every
\* curve point P, width_4_windowed_multiplication(P, s) is the point s * P.
C10_WindowedMulIsScalarMul ==
    mul.stage = "done" =>
        /\ mul.satisfied
        /\ RefOf(mul.result) = RefMul(mul.scalar, mul.point)
C10_Witness ==
    /\ mul.stage = "done"
    /\ mul.scalar = secp_n - 1
    /\ mul.point # RefG
    /\ glv_decomposition(mul.scalar).k2_was_negated
    /\ RefOf(mul.result) = RefNeg(mul.point)

-----------------------------------------------------------------------------
(* Fixed-base multiplication                                               *)

\* the table points of the non-zero bytes added up from the most significant
\* position down to position 0
RECURSIVE RefTableSum(_, _, _)
RefTableSum(acc, bytes, position) ==
    IF position < 0 THEN acc
    ELSE After(acc,
               RefTableSum(IF bytes[position + 1] = 0 THEN acc
                           ELSE RefAdd(acc, FixedBaseMulTable[position][bytes[position + 1]]),
                           bytes, position - 1))

\* C11: for every reduced scalar s, fixed_base_mul(s) is s*G, and it is the sum
\* over the byte positions, most significant first, of the table point of
\* (position, byte value), a zero byte contributing nothing.
C11_FixedBaseMulIsScalarMul ==
    mul.stage = "fixed_done" =>
        /\ RefOf(mul.result) = RefMul(mul.scalar, RefG)
        /\ RefOf(mul.result)
             = RefTableSum(RefInf, to_le_bytes(mul.scalar), BYTES_PER_WORD - 1)
\* a scalar with a zero low byte and a non-zero high byte has been multiplied
C11_Witness ==
    /\ mul.stage = "fixed_done"
    /\ to_le_bytes(mul.scalar)[1] = 0
    /\ to_le_bytes(mul.scalar)[BYTES_PER_WORD] # 0
    /\ RefOf(mul.result) # RefInf

\* C18: fixed_base_mul of the zero scalar is the point at infinity, and so is
\* the accumulator before the final selection (every byte is zero, so no
\* table point was added).
C18_ZeroScalarGivesInfinity ==
    (mul.stage = "fixed_done" /\ mul.scalar = 0) =>
        /\ mul.result = sw_zero
        /\ RefOf(mul.result) = RefInf
        /\ mul.accumulated = mul.result
        /\ \A i \in 1..BYTES_PER_WORD : to_le_bytes(mul.scalar)[i] = 0
C18_Witness ==
    /\ mul.stage = "fixed_done"
    /\ mul.scalar = 0
    /\ RefOf(mul.accumulated) = RefInf

-----------------------------------------------------------------------------
(* GLV decomposition                                                       *)

\* the endomorphism (x, y) -> (BETA * x, y) and its eigenvalue: phi(G) = lambda * G
RefPhi(Q) == IF Q = RefInf THEN RefInf ELSE <<Fq(BETA * Q[1]), Q[2]>>
RefLambda == CHOOSE l \in 1..(secp_n - 1) : RefMul(l, RefG) = RefPhi(RefG)
RefSigned(was_negated, k) == IF was_negated THEN 0 - k ELSE k
\* k1 and k2 before the conditional negation, from the rounded quotients c1, c2
RefK1(scalar, glv) == (scalar + 2 * secp_n * WORD_MOD - glv.c1 * A1 - glv.c2 * A2) % secp_n
RefK2(glv) == (glv.c1 * B1 + secp_n * WORD_MOD - glv.c2 * A1) % secp_n
GlvRoundTrip(scalar, glv) ==
    (RefSigned(glv.k1_was_negated, glv.k1)
        + RefSigned(glv.k2_was_negated, glv.k2) * RefLambda
        + secp_n * secp_n * 2 - scalar) % secp_n = 0
GlvPointRoundTrip(scalar, glv, affine) ==
    RefAdd(RefMul(glv.k1, precomputation_table(affine, glv.k1_was_negated)[1]),
           RefMul(glv.k2, endomorphisms_table(affine, glv.k2_was_negated)[1]))
        = RefMul(scalar, affine[1])
GlvTables(glv, affine) ==
    /\ precomputation_table(affine, glv.k1_was_negated)[1]
         = IF glv.k1_was_negated THEN RefNeg(affine[1]) ELSE affine[1]
    /\ endomorphisms_table(affine, glv.k2_was_negated)[1]
         = IF glv.k2_was_negated THEN RefNeg(RefPhi(affine[1])) ELSE RefPhi(affine[1])

\* C12: for every reduced scalar s the outputs of the decomposition satisfy
\* e1*k1 + e2*k2*lambda = s (mod n), e_i = -1 when the flag is set and +1
\* otherwise; equivalently k1*(+/-P) + k2*(+/-phi(P)) = s*P with the first
\* entries of the two tables negated according to the flags.
C12_GlvRoundTrip ==
    mul.stage = "done" =>
        /\ GlvRoundTrip(mul.scalar, glv_decomposition(mul.scalar))
        /\ GlvTables(glv_decomposition(mul.scalar),
                     affine_table(precomputation_tmps(
                                 from_xy_unchecked(mul.point[1], mul.point[2]))))
        /\ GlvPointRoundTrip(mul.scalar, glv_decomposition(mul.scalar),
                             affine_table(precomputation_tmps(
                                 from_xy_unchecked(mul.point[1], mul.point[2]))))
\* a scalar whose two halves are both non-zero and both negated
C12_Witness ==
    /\ mul.stage = "done"
    /\ glv_decomposition(mul.scalar).k1_was_negated
    /\ glv_decomposition(mul.scalar).k2_was_negated
    /\ glv_decomposition(mul.scalar).k1 # 0
    /\ glv_decomposition(mul.scalar).k2 # 0
    /\ RefOf(mul.result) = RefMul(mul.scalar, mul.point)

\* the windows of k, most significant first, put together again
RefWindowsValue(windows) ==
    LET RECURSIVE value(_, _)
        value(acc, i) == IF i > Len(windows) THEN acc
                         ELSE value(acc * WINDOW_MOD + windows[i], i + 1)
    IN value(0, 1)
GlvWithinBound(scalar, glv) ==
    /\ glv.k1 <= MAX_DECOMPOSITION_VALUE
    /\ glv.k2 <= MAX_DECOMPOSITION_VALUE
    /\ glv.k1_was_negated <=> RefK1(scalar, glv) > MAX_DECOMPOSITION_VALUE
    /\ glv.k2_was_negated <=> RefK2(glv) > MAX_DECOMPOSITION_VALUE
    /\ ~u256_overflowing_sub(MAX_DECOMPOSITION_VALUE, MAX_DECOMPOSITION_VALUE)[2]
    /\ u256_overflowing_sub(MAX_DECOMPOSITION_VALUE, MAX_DECOMPOSITION_VALUE + 1)[2]
    /\ window_form_accepts(glv.k1)
    /\ window_form_accepts(glv.k2)
    /\ RefWindowsValue(to_width_4_window_form(glv.k1)) = glv.k1
    /\ RefWindowsValue(to_width_4_window_form(glv.k2)) = glv.k2

\* C13: for every reduced scalar, k1 and k2 after the conditional negation are
\* at most MAX_DECOMPOSITION_VALUE; a half is negated exactly when it is
\* strictly greater than the bound; both fit the windows, so the window
\* conversion accepts them.
C13_GlvHalvesWithinBound ==
    mul.stage = "done" => GlvWithinBound(mul.scalar, glv_decomposition(mul.scalar))
\* a scalar one of whose halves exceeded the bound and was negated into it
C13_Witness ==
    /\ mul.stage = "done"
    /\ RefK1(mul.scalar, glv_decomposition(mul.scalar)) > MAX_DECOMPOSITION_VALUE
    /\ glv_decomposition(mul.scalar).k1_was_negated
    /\ glv_decomposition(mul.scalar).k1 <= MAX_DECOMPOSITION_VALUE
    /\ glv_decomposition(mul.scalar).k1 > 0

-----------------------------------------------------------------------------
(* Legendre symbol and square root                                         *)

\* C14: for every non-zero quadratic residue t modulo p the Legendre value of
\* the fixed chain is +1, the non-residue flag is not raised, and the root of
\* the second chain squares to t, before and after the parity-driven negation
\* (after which its lowest bit is the requested parity).
C14_ResidueHasRoot ==
    (mul.stage = "t_done" /\ RefIsResidue(mul.t)) =>
        /\ mul.point.satisfied
        /\ mul.point.legendre_symbol = 1
        /\ ~mul.point.t_is_nonresidue
        /\ Fq(mul.point.may_be_recovered_y * mul.point.may_be_recovered_y) = mul.t
        /\ Fq(mul.point.y * mul.point.y) = mul.t
        /\ spread_into_bits(mul.point.y, 0) = mul.y_is_odd
\* a residue whose root had the other parity and was negated
C14_Witness ==
    /\ mul.stage = "t_done"
    /\ RefIsResidue(mul.t)
    /\ mul.point.legendre_symbol = 1
    /\ mul.point.y # mul.point.may_be_recovered_y
    /\ Fq(mul.point.y + mul.point.may_be_recovered_y) = 0

-----------------------------------------------------------------------------
(* The operand of inverse_unchecked                                        *)

\* C15: for every word r given to the routine, the scalar-field element whose
\* inverse is taken is non-zero modulo n: an r that is the additive identity
\* of the scalar field is replaced by one and its was-zero flag is raised, so
\* the constraint of inverse_unchecked always has a witness.
C15_InverseOperandNonZero ==
    EcrDone =>
        /\ ecr.result.r_fe % secp_n # 0
        /\ nn_div_satisfied(1, ecr.result.r_fe, secp_n)
        /\ ecr.r % secp_n = 0 => (ecr.result.exception_flags[3] /\ ecr.result.r_fe = 1)
\* r = n: the word is not zero, the flag stays clear, the element is zero
\* modulo n and the inverse has no witness
C15_Witness ==
    /\ EcrDone
    /\ ecr.r = secp_n
    /\ ~ecr.result.exception_flags[3]
    /\ ecr.result.r_fe % secp_n = 0
    /\ ~ecr.result.satisfied

-----------------------------------------------------------------------------
(* The substitute point of the non-residue case                            *)

\* C16: the substitute triple supplied for the non-residue case is a valid
\* triple, t = x^3 + 7 and y^2 = t modulo p, so the point (x, y) passed to the
\* multiplier after the substitution lies on the curve y^2 = x^3 + 7.
C16_SubstituteOnCurve ==
    (EcrDone /\ ecr.result.exception_flags[7]) =>
        /\ ecr.result.recovered_point = <<valid_x_in_external_field, valid_y_in_external_field>>
        /\ Fq(valid_y_in_external_field * valid_y_in_external_field) = valid_t_in_external_field
        /\ valid_t_in_external_field
             = Fq(Fq(Fq(valid_x_in_external_field * valid_x_in_external_field)
                     * valid_x_in_external_field) + SECP_B_COEF)
        /\ RefOnCurve(ecr.result.recovered_point)
\* a run whose only exception is the non-residue: the multiplier was given
\* (9, 4), whose y squares to t = 16 while x^3 + 7 is 736
C16_Witness ==
    /\ EcrDone
    /\ ecr.result.satisfied
    /\ ecr.result.exception_flags
         = <<FALSE, FALSE, FALSE, FALSE, FALSE, FALSE, TRUE, FALSE>>
    /\ ecr.result.recovered_point = <<9, 4>>
    /\ Fq(4 * 4) = valid_t_in_external_field
    /\ Fq(9 * 9 * 9 + SECP_B_COEF) = 736
    /\ ~RefOnCurve(ecr.result.recovered_point)

-----------------------------------------------------------------------------
(* The checks on a popped call                                             *)

\* the request a cycle pops: the next element of the witness
NextRequest == Head(witness_rest(requests_queue_witness, consumed, 1))
WrongCall(request) ==
    \/ request.aux_byte # PRECOMPILE_AUX_BYTE
    \/ request.address # ECRECOVER_INNER_FUNCTION_PRECOMPILE_FORMAL_ADDRESS

\* C17: in every cycle that pops a call, a call whose aux byte is not
\* PRECOMPILE_AUX_BYTE or whose address is not the ecrecover formal address
\* rejects the instance; in a cycle where the queue is empty the equalities are
\* not enforced and the placeholder request never causes rejection.
C17_CallChecksOnlyWhenPopping ==
    [][(pc = "loop" /\ cycle' = cycle + 1) =>
          IF queue_is_empty(requests_queue)
          THEN /\ WrongCall(LogQuery_placeholder)
               /\ pc' = "loop"
               /\ requests_queue' = requests_queue
          ELSE /\ requests_queue'.length = requests_queue.length - 1
               /\ WrongCall(NextRequest) => pc' = "rejected"
               /\ pc' = "loop" => ~WrongCall(NextRequest)]_vars
\* a call to another address was popped and the instance was rejected
C17_Witness ==
    /\ pc = "rejected"
    /\ consumed >= 1
    /\ requests_queue.head[consumed].aux_byte = PRECOMPILE_AUX_BYTE
    /\ requests_queue.head[consumed].address
         # ECRECOVER_INNER_FUNCTION_PRECOMPILE_FORMAL_ADDRESS

-----------------------------------------------------------------------------
(* convert_field_element_to_uint256                                        *)

-----------------------------------------------------------------------------
(* The cycle limit                                                         *)

CanStart == pc \in {"next", "done"} /\ instance < MaxInstances
\* C20: the entry point rejects, by an assertion and before any queue or
\* memory state is touched, every cycle limit greater than u32::MAX, and
\* accepts every limit from 0 up to u32::MAX.
C20_LimitAssertion ==
    /\ [](CanStart =>
            /\ \A limit_ \in 0..U32_MAX :
                  ENABLED StartInstance(limit_) /\ ~ENABLED RejectLimit(limit_)
            /\ \A limit_ \in RejectedLimits :
                  ENABLED RejectLimit(limit_) /\ ~ENABLED StartInstance(limit_))
    /\ [][CanStart =>
            /\ limit' > U32_MAX =>
                  /\ pc' = "panicked"
                  /\ UNCHANGED <<structured_input, requests_queue, memory_queue,
                                 requests_queue_witness, memory_reads_witness, cycle,
                                 instance>>
            /\ limit' <= U32_MAX => (pc' \in {"loop", "rejected"} /\ instance' = instance + 1)
            /\ pc' = "rejected" => ~trivial_heads(structured_input')]_vars
\* an instance ran u32::MAX cycles to its end, and the next call, with one
\* cycle more, panicked leaving the chain's state as it was
C20_Witness ==
    /\ pc = "panicked"
    /\ limit = U32_MAX + 1
    /\ instance = 1
    /\ cycle = U32_MAX
    /\ structured_input.completion_flag

-----------------------------------------------------------------------------
(* The rounded quotients of the decomposition                              *)

\* a / b rounded to the nearest integer (b odd, so there are no ties)
RefRound(a, b) == (2 * a + b) \div (2 * b)
\* C21 as stated: for every reduced scalar s, c1 is round(b2 * s / n) and c2
\* is round(b1 * s / n).
C21_QuotientsAreRoundedDivisionsByN ==
    mul.stage = "done" =>
        /\ glv_decomposition(mul.scalar).c1 = RefRound(A1 * mul.scalar, secp_n)
        /\ glv_decomposition(mul.scalar).c2 = RefRound(B1 * mul.scalar, secp_n)
\* C21 amended: c1 and c2 are the high halves of b2 * s + (n - 1) / 2 and of
\* b1 * s + (n - 1) / 2, that is these sums divided by the word modulus and
\* rounded down; the sums fit the double word, and neither quotient exceeds
\* the division by n rounded to the nearest.
C21_QuotientsAreHighHalves ==
    mul.stage = "done" =>
        /\ glv_decomposition(mul.scalar).no_overflow
        /\ glv_decomposition(mul.scalar).c1
             = (A1 * mul.scalar + MODULUS_MINUS_ONE_DIV_TWO) \div WORD_MOD
        /\ glv_decomposition(mul.scalar).c2
             = (B1 * mul.scalar + MODULUS_MINUS_ONE_DIV_TWO) \div WORD_MOD
        /\ glv_decomposition(mul.scalar).c1 <= RefRound(A1 * mul.scalar, secp_n)
        /\ glv_decomposition(mul.scalar).c2 <= RefRound(B1 * mul.scalar, secp_n)
        /\ MODULUS_MINUS_ONE_DIV_TWO = (secp_n - 1) \div 2
\* a scalar whose quotients are both below the divisions by n rounded to the
\* nearest, and whose product is still right
C21_Witness ==
    /\ mul.stage = "done"
    /\ glv_decomposition(mul.scalar).c1 < RefRound(A1 * mul.scalar, secp_n)
    /\ glv_decomposition(mul.scalar).c2 < RefRound(B1 * mul.scalar, secp_n)
    /\ RefOf(mul.result) = RefMul(mul.scalar, mul.point)

-----------------------------------------------------------------------------
(* The exponents of the two chains                                         *)

\* t^e modulo p from the bits of e
RefSquared(h) == Fq(h * h)
RECURSIVE RefPow(_, _)
RefPow(t, e) ==
    IF e = 0 THEN 1
    ELSE IF e % 2 = 0 THEN RefSquared(RefPow(t, e \div 2))
    ELSE Fq(t * RefPow(t, e - 1))
\* the sum of 2^i over the indexes of a list
RefSumOfPowersOfTwo(idxs) ==
    LET RECURSIVE sum(_)
        sum(i) == IF i > Len(idxs) THEN 0 ELSE 2 ^ idxs[i] + sum(i + 1)
    IN sum(1)
LegendreExponent == 2 ^ (X_POWERS_ARR_LEN - 1) - 2 ^ 0 - RefSumOfPowersOfTwo(LEGENDRE_IDXS)
SqrtExponent == 2 ^ (X_POWERS_ARR_LEN - 2) - 2 ^ SQRT_FIRST_IDX - RefSumOfPowersOfTwo(SQRT_IDXS)

\* C22: the two index lists implement the exact exponents: the last power
\* divided by the product of the listed powers is t^((p-1)/2), the last but
\* one divided by the product of the second list is t^((p+1)/4); hence the
\* non-residue flag is raised exactly when the non-zero t is a quadratic
\* non-residue modulo p.
C22_ChainsAreExactExponents ==
    mul.stage = "t_done" =>
        /\ LegendreExponent = (secp_p - 1) \div 2
        /\ SqrtExponent = (secp_p + 1) \div 4
        /\ mul.point.legendre_symbol = RefPow(mul.t, (secp_p - 1) \div 2)
        /\ mul.point.may_be_recovered_y = RefPow(mul.t, (secp_p + 1) \div 4)
        /\ mul.point.t_is_nonresidue <=> RefIsNonResidue(mul.t)
\* a non-residue: the Legendre value is p - 1, the flag is raised and the
\* substitute point is selected
C22_Witness ==
    /\ mul.stage = "t_done"
    /\ RefIsNonResidue(mul.t)
    /\ mul.point.legendre_symbol = secp_p - 1
    /\ mul.point.t_is_nonresidue
    /\ mul.point.x = valid_x_in_external_field

-----------------------------------------------------------------------------
(* The selection of the root by parity                                     *)

\* C23: for every normalized non-zero candidate root y and every recovery id,
\* the selected y-coordinate is y when the least-significant bit of y equals
\* recovery-id bit 0 and p - y otherwise, so the parity of the selected
\* coordinate always equals recovery-id bit 0.
C23_ParitySelectsRoot ==
    mul.stage = "t_done" =>
        /\ mul.point.may_be_recovered_y \in 1..(secp_p - 1)
        /\ mul.point.selected_y
             = IF (mul.point.may_be_recovered_y % 2 = 1) = mul.y_is_odd
               THEN mul.point.may_be_recovered_y
               ELSE secp_p - mul.point.may_be_recovered_y
        /\ (mul.point.selected_y % 2 = 1) = mul.y_is_odd
        /\ ~mul.point.t_is_nonresidue => mul.point.y = mul.point.selected_y
        /\ \A recid \in 0..(BYTE_MOD - 1) : spread_into_bits(recid, 0) = (recid % 2 = 1)
\* an even candidate and an odd recovery id: p - y is selected
C23_Witness ==
    /\ mul.stage = "t_done"
    /\ mul.y_is_odd
    /\ mul.point.may_be_recovered_y % 2 = 0
    /\ mul.point.selected_y = secp_p - mul.point.may_be_recovered_y
    /\ mul.point.y = mul.point.selected_y

-----------------------------------------------------------------------------
(* The x-coordinate candidate                                              *)

\* r, or r + n as a word, by bit 1 of the recovery id
EcrCandidate == IF (ecr.recid \div 2) % 2 = 1 THEN (ecr.r + secp_n) % WORD_MOD ELSE ecr.r
\* C24: the x candidate is (r + n) mod 2^256 when recovery-id bit 1 is set and
\* r otherwise; the first flag is raised iff bit 1 is set and r + n overflows
\* the word; the second flag is raised iff the candidate is >= p, and then the
\* candidate is replaced by zero before the conversion, so the converted x is
\* always below p.
C24_CandidateAndRangeFlags ==
    EcrDone =>
        /\ ecr.result.exception_flags[1]
             <=> ((ecr.recid \div 2) % 2 = 1 /\ ecr.r + secp_n >= WORD_MOD)
        /\ ecr.result.exception_flags[2] <=> EcrCandidate >= secp_p
        /\ ecr.result.x_as_u256 = IF EcrCandidate >= secp_p THEN 0 ELSE EcrCandidate
        /\ convert_uint256_to_field_element(ecr.result.x_as_u256) < secp_p
        /\ ~ecr.result.exception_flags[7]
             => ecr.result.recovered_point[1] = ecr.result.x_as_u256
\* r + n is exactly p: out of range, replaced by zero, no overflow
C24_Witness ==
    /\ EcrDone
    /\ (ecr.recid \div 2) % 2 = 1
    /\ ecr.r + secp_n = secp_p
    /\ ecr.result.exception_flags[2]
    /\ ~ecr.result.exception_flags[1]
    /\ ecr.result.x_as_u256 = 0

-----------------------------------------------------------------------------
(* One step of the windowed multiplier                                     *)

StepAddsK1 ==
    IF mul.k1_window_idx = 0 THEN mul.after_k1 = mul.acc
    ELSE /\ select_table_entry(StepTable, mul.k1_window_idx)
              = RefMul(mul.k1_window_idx, RefG)
         /\ RefOf(mul.after_k1)
              = RefAdd(RefOf(mul.acc), RefMul(mul.k1_window_idx, RefG))
StepAddsK2 ==
    IF mul.k2_window_idx = 0 THEN mul.after_k2 = mul.after_k1
    ELSE /\ select_table_entry(StepEndomorphismsTable, mul.k2_window_idx)
              = RefNeg(RefMul(mul.k2_window_idx, RefPhi(RefG)))
         /\ RefOf(mul.after_k2)
              = RefAdd(RefOf(mul.after_k1),
                       RefNeg(RefMul(mul.k2_window_idx, RefPhi(RefG))))
StepDoubles ==
    IF mul.idx = NUM_MULTIPLICATION_STEPS_FOR_WIDTH_4 THEN mul.result = mul.after_k2
    ELSE /\ mul.result = double(double(double(double(mul.after_k2))))
         /\ RefOf(mul.result) = RefMul(2 ^ WINDOW_WIDTH, RefOf(mul.after_k2))
\* C25: in each step of the windowed multiplier a zero k1 window leaves the
\* accumulator as it was before the k1 addition and a zero k2 window leaves
\* it as it was before the k2 addition, each whatever the other window is; a
\* non-zero window w adds exactly the table entry w*P (resp. w*phi(P), with
\* the table's sign); the accumulator is doubled four times after every step
\* except the last one.
C25_StepFrame ==
    mul.stage = "step_done" => (StepAddsK1 /\ StepAddsK2 /\ StepDoubles)
\* a step that is not the last, with a zero k1 window and a non-zero k2 window
\* on a non-zero accumulator
C25_Witness ==
    /\ mul.stage = "step_done"
    /\ mul.idx < NUM_MULTIPLICATION_STEPS_FOR_WIDTH_4
    /\ mul.k1_window_idx = 0
    /\ mul.k2_window_idx = WINDOW_MOD - 1
    /\ mul.acc # sw_zero
    /\ mul.after_k1 = mul.acc
    /\ mul.after_k2 # mul.acc
    /\ mul.result # mul.after_k2

-----------------------------------------------------------------------------
(* The window form of a scalar                                             *)

WindowFormLength == 1 + 4 * FullWindowLimbs
\* the first scalar that the windows cannot hold
RefWindowsCap == WINDOW_MOD ^ WindowFormLength
RECURSIVE RefLimbsValue(_, _)
\* the scalar of limbs i.., or RefWindowsCap when it is that or above
RefLimbsValue(limbs, i) ==
    IF i > Len(limbs) THEN 0
    ELSE IF RefLimbsValue(limbs, i + 1) >= RefWindowsCap \div (2 ^ LIMB_BITS)
         THEN RefWindowsCap
         ELSE limbs[i] + (2 ^ LIMB_BITS) * RefLimbsValue(limbs, i + 1)
\* a window form and the one of the multiplier's scaled width agree on the
\* scalars the latter takes
WindowFormsAgree(value, result) ==
    window_form_accepts(value) =>
        /\ SubSeq(result, WindowFormLength - NUM_MULTIPLICATION_STEPS_FOR_WIDTH_4 + 1,
                  WindowFormLength) = to_width_4_window_form(value)
        /\ \A i \in 1..(WindowFormLength - NUM_MULTIPLICATION_STEPS_FOR_WIDTH_4) :
              result[i] = 0
\* C26: to_width_4_window_form returns one window for the highest word and
\* four for each full limb (33 in the code), each in 0..15, most significant
\* first, whose weighted sum is the input scalar; an input of more bits than
\* the windows hold (a limb above the highest word non-zero, or the highest
\* word above 15) is rejected, never truncated.
C26_WindowFormExact ==
    mul.stage = "limbs_done" =>
        /\ Len(mul.result) = WindowFormLength
        /\ \A i \in 1..Len(mul.result) : mul.result[i] \in 0..(WINDOW_MOD - 1)
        /\ mul.satisfied <=> RefLimbsValue(mul.limbs, 1) < RefWindowsCap
        /\ mul.satisfied <=>
              /\ \A i \in (FullWindowLimbs + 2)..Len(mul.limbs) : mul.limbs[i] = 0
              /\ mul.limbs[FullWindowLimbs + 1] <= WINDOW_MOD - 1
        /\ mul.satisfied =>
              /\ RefWindowsValue(mul.result) = RefLimbsValue(mul.limbs, 1)
              /\ WindowFormsAgree(RefLimbsValue(mul.limbs, 1), mul.result)
\* an accepted scalar that uses the window of the highest word
C26_Witness ==
    /\ mul.stage = "limbs_done"
    /\ mul.satisfied
    /\ mul.limbs[FullWindowLimbs + 1] = WINDOW_MOD - 1
    /\ mul.limbs[1] = 4660
    /\ mul.result[1] = WINDOW_MOD - 1
    /\ SubSeq(mul.result, WindowFormLength - 3, WindowFormLength) = <<1, 2, 3, 4>>

-----------------------------------------------------------------------------
(* Cycles on an empty queue                                                *)

\* the queues after a pass of the loop body on the current state, were the
\* routine to return what it returns on read_values
IdleFrameFor(read_values) ==
    /\ loop_body_with(requests_queue, memory_queue,
                      witness_rest(requests_queue_witness, consumed, 1),
                      witness_rest(memory_reads_witness, consumed,
                                   NUM_MEMORY_READS_PER_CYCLE),
                      loop_routine(read_values)).requests_queue = requests_queue
    /\ loop_body_with(requests_queue, memory_queue,
                      witness_rest(requests_queue_witness, consumed, 1),
                      witness_rest(memory_reads_witness, consumed,
                                   NUM_MEMORY_READS_PER_CYCLE),
                      loop_routine(read_values)).memory_queue = memory_queue
\* C27: in a cycle where the request queue is empty nothing is popped and
\* nothing is appended: the request queue and the memory queue after the
\* cycle are those before it, whatever the recovery routine computes; once
\* the queue is empty it stays empty for the remaining cycles of the instance.
C27_IdleCycleFrame ==
    [][(pc = "loop" /\ queue_is_empty(requests_queue)) =>
          /\ queue_is_empty(requests_queue')
          /\ \A read_values \in LoopReadValues : IdleFrameFor(read_values)
          /\ cycle' = cycle + 1 =>
                /\ requests_queue' = requests_queue
                /\ memory_queue' = memory_queue]_vars
\* an instance that popped a call and then ran a cycle on the empty queue
C27_Witness ==
    /\ pc = "loop"
    /\ queue_is_empty(requests_queue)
    /\ PoppedHere >= 1
    /\ cycle > PoppedHere
    /\ memory_queue.length > memory_queue_state_of(structured_input).length

-----------------------------------------------------------------------------
(* The queues across an instance                                           *)

MemoryAtEntry == memory_queue_state_of(structured_input)
QueriesPerCall == MEMORY_QUERIES_PER_CALL + 2
\* C28: across an instance the memory queue is only appended to: its length
\* is its length at entry plus 6 (4 reads and 2 writes) for every call
\* processed so far, what it held at entry is unchanged and stays a prefix,
\* and the request queue's length is its length at entry minus the number
\* of calls processed; in particular at exit.
C28_MemoryQueueAppendOnly ==
    pc \in {"loop", "done", "rejected"} =>
        /\ MEMORY_QUERIES_PER_CALL = NUM_MEMORY_READS_PER_CYCLE
        /\ QueriesPerCall = 6
        /\ PoppedHere \in 0..cycle
        /\ memory_queue.length = MemoryAtEntry.length + QueriesPerCall * PoppedHere
        /\ memory_queue.head = MemoryAtEntry.head
        /\ Len(memory_queue.tail) = Len(MemoryAtEntry.tail) + QueriesPerCall * PoppedHere
        /\ SubSeq(memory_queue.tail, 1, Len(MemoryAtEntry.tail)) = MemoryAtEntry.tail
        /\ requests_queue.length = LengthAtEntry - PoppedHere
        /\ requests_queue.tail = requests_queue_state_of(structured_input).tail
\* the exit of a later instance that processed a call and then idled, on top
\* of a memory queue that an earlier instance had appended to
C28_Witness ==
    /\ pc = "done"
    /\ instance >= 2
    /\ PoppedBefore = 1
    /\ PoppedHere = 1
    /\ cycle > PoppedHere
    /\ Len(MemoryAtEntry.tail) > QueriesPerCall
    /\ memory_queue.length = MemoryAtEntry.length + 6

-----------------------------------------------------------------------------
(* The outputs of an instance                                              *)

\* C29: at the end of every instance the observable output's final memory
\* state is the actual final memory-queue state when the completion flag is
\* true and the empty placeholder state when it is false, while the hidden
\* FSM output always carries the actual final request-queue and memory-queue
\* states, also when the completion flag is true.
C29_OutputsAtExit ==
    pc = "done" =>
        /\ structured_input.completion_flag = queue_is_empty(requests_queue)
        /\ structured_input.completion_flag =>
              structured_input.observable_output.final_memory_state = memory_queue
        /\ ~structured_input.completion_flag =>
              structured_input.observable_output.final_memory_state = QueueState_empty
        /\ structured_input.hidden_fsm_output.log_queue_state = requests_queue
        /\ structured_input.hidden_fsm_output.memory_queue_state = memory_queue
\* a completed instance whose memory queue is not the placeholder
C29_Witness ==
    /\ pc = "done"
    /\ structured_input.completion_flag
    /\ PoppedHere >= 1
    /\ memory_queue # QueueState_empty
    /\ structured_input.observable_output.final_memory_state = memory_queue
    /\ structured_input.hidden_fsm_output.memory_queue_state = memory_queue
    /\ structured_input.hidden_fsm_output.log_queue_state.head # <<>>

-----------------------------------------------------------------------------
(* The bits of the recovery id that the routine reads                      *)

\* C30: two runs that agree on r, s, digest and on the two lowest bits of
\* the recovery id produce the same validity and the same value: the higher
\* bits of the recovery id and the upper bytes of its memory word have no
\* effect on the result and raise no exception flag.
C30_HighRecidBitsIgnored ==
    (ecr.stage = "pair_done" /\ ecr.v1 % 4 = ecr.v2 % 4) =>
        /\ ecr.result1.all_ok = ecr.result2.all_ok
        /\ ecr.result1.written_value = ecr.result2.written_value
        /\ ecr.result1.exception_flags = ecr.result2.exception_flags
        /\ ecr.result1.satisfied = ecr.result2.satisfied
\* a valid signature recovered alike under a recovery id word with only its
\* two lowest bits possibly set and under one with every higher bit set
C30_Witness ==
    /\ ecr.stage = "pair_done"
    /\ ecr.v1 < 4
    /\ ecr.v2 = ecr.v1 + (WORD_MOD - 4)
    /\ ecr.result1.all_ok
    /\ ecr.result2.all_ok
    /\ ecr.result1.written_value = ecr.result2.written_value
    /\ ecr.result2.written_value # 0
=============================================================================
